---- MODULE Spec2Model ----
(***************************************************************************)
(* SSDLC automation tool: the project / task / phase state model, in its   *)
(* two deployments (Express server over the JSON file store, Netlify       *)
(* projects function over module-level arrays), the report statistics and  *)
(* the checklist page of the browser.                                      *)
(***************************************************************************)
EXTENDS Integers, Sequences, FiniteSets, TLC

VARIABLES
    deploy,        \* which deployment is running: "express" or "netlify"
    projectsFile,  \* data/projects.json: the array of stored projects
    tasksFile,     \* data/tasks.json: project id -> task mapping
    projects,      \* netlify projects function: let projects = []
    tasks,         \* netlify projects function: let tasks = {}
    nextId,        \* the ids uuidv4() has handed out so far
    now,           \* the last reading of the wall clock
    last,          \* the last request and the answer it got
    page,          \* public/checklist.js: the Checklist object of the open
                   \* page and the inputs of the task it shows
    network        \* the requests of the page on their way to the server
                   \* and the responses on their way back

vars == <<deploy, projectsFile, tasksFile, projects, tasks, nextId, now, last,
          page, network>>

----------------------------------------------------------------------------
(* Bounds of the model *)

MaxProjects == 2     \* projects a behaviour of Spec creates
MaxClock == 3        \* last clock reading in Spec; every request advances the clock
MaxFiles == 2        \* files in one upload request
MaxPhaseTasks == 2   \* tasks per phase in the report inputs of SpecReport
MaxNotes == 82       \* characters of the notes in SpecNotes

----------------------------------------------------------------------------
(* JavaScript values that cross the HTTP boundary, tagged by typeof *)

null == 0

Undefined == [t |-> "undefined"]
JSNull == [t |-> "null"]
Bool(b) == [t |-> "boolean", v |-> b]
Str(s) == [t |-> "string", v |-> s]
Num(n) == [t |-> "number", v |-> n]

\* !x
Falsy(x) ==
    \/ x.t \in {"undefined", "null"}
    \/ x.t = "boolean" /\ x.v = FALSE
    \/ x.t = "string" /\ x.v = <<>>
    \/ x.t = "number" /\ x.v = 0

\* x || ''
OrEmpty(x) == IF Falsy(x) THEN Str(<<>>) ELSE x

RECURSIVE TrimStart(_)
TrimStart(s) == IF s # <<>> /\ Head(s) = " " THEN TrimStart(Tail(s)) ELSE s

RECURSIVE TrimEnd(_)
TrimEnd(s) ==
    IF s # <<>> /\ s[Len(s)] = " " THEN TrimEnd(SubSeq(s, 1, Len(s) - 1)) ELSE s

\* String.prototype.trim
Trim(s) == TrimEnd(TrimStart(s))

----------------------------------------------------------------------------
(* models/Project.js *)

PhaseOrder == <<"planning", "design", "implementation", "testing", "deployment">>

PhaseNames == {PhaseOrder[i] : i \in 1..Len(PhaseOrder)}

\* new Project(name) with every phase stamped at creation
ProjectStamped(id, name, t) ==
    [id |-> id,
     name |-> name,
     createdDate |-> t,
     phases |-> [p \in PhaseNames |-> [completed |-> FALSE, completedDate |-> t]],
     overallStatus |-> "In Progress"]

\* new Project(name), with the uuid and the clock reading it draws
Project(id, name, t) ==
    [id |-> id,
     name |-> name,
     createdDate |-> t,
     phases |-> [p \in PhaseNames |-> [completed |-> FALSE, completedDate |-> null]],
     overallStatus |-> "In Progress"]

\* validate without the trim
validateUntrimmed(name) ==
    ~ (Falsy(name) \/ name.t # "string")

\* Project.validate: TRUE when it returns, FALSE when it throws
validate(name) ==
    ~ (Falsy(name) \/ name.t # "string" \/ Len(Trim(name.v)) = 0)

\* updatePhaseStatus with some() in place of every()
updatePhaseStatusSome(project, phase, completed, t) ==
    LET phases == [project.phases EXCEPT ![phase] =
                      [completed |-> completed,
                       completedDate |-> IF completed THEN t ELSE null]]
        allPhasesCompleted == \E p \in DOMAIN phases : phases[p].completed
    IN [project EXCEPT !.phases = phases,
                       !.overallStatus = IF allPhasesCompleted THEN "Completed"
                                         ELSE "In Progress"]

\* updatePhaseStatus that keeps the completedDate of a phase that reopens
updatePhaseStatusKeepDate(project, phase, completed, t) ==
    LET phases == [project.phases EXCEPT ![phase] =
                      [completed |-> completed,
                       completedDate |-> IF completed THEN t ELSE @.completedDate]]
        allPhasesCompleted == \A p \in DOMAIN phases : phases[p].completed
    IN [project EXCEPT !.phases = phases,
                       !.overallStatus = IF allPhasesCompleted THEN "Completed"
                                         ELSE "In Progress"]

\* updatePhaseStatus that assigns the flag and the date to every phase
updatePhaseStatusAll(project, phase, completed, t) ==
    LET phases == [p \in DOMAIN project.phases |->
                      [completed |-> completed,
                       completedDate |-> IF completed THEN t ELSE null]]
        allPhasesCompleted == \A p \in DOMAIN phases : phases[p].completed
    IN [project EXCEPT !.phases = phases,
                       !.overallStatus = IF allPhasesCompleted THEN "Completed"
                                         ELSE "In Progress"]

\* updatePhaseStatus that stamps a phase only when it becomes completed
updatePhaseStatusFirstStamp(project, phase, completed, t) ==
    LET phases == [project.phases EXCEPT ![phase] =
                      [completed |-> completed,
                       completedDate |-> IF completed
                                         THEN (IF @.completed THEN @.completedDate ELSE t)
                                         ELSE null]]
        allPhasesCompleted == \A p \in DOMAIN phases : phases[p].completed
    IN [project EXCEPT !.phases = phases,
                       !.overallStatus = IF allPhasesCompleted THEN "Completed"
                                         ELSE "In Progress"]

\* Project.updatePhaseStatus on a phase the project has
updatePhaseStatus(project, phase, completed, t) ==
    LET phases == [project.phases EXCEPT ![phase] =
                      [completed |-> completed,
                       completedDate |-> IF completed THEN t ELSE null]]
        allPhasesCompleted == \A p \in DOMAIN phases : phases[p].completed
    IN [project EXCEPT !.phases = phases,
                       !.overallStatus = IF allPhasesCompleted THEN "Completed"
                                         ELSE "In Progress"]

----------------------------------------------------------------------------
(* models/Task.js *)

Task(id, phase, title, description) ==
    [id |-> id, phase |-> phase, title |-> title, description |-> description,
     completed |-> FALSE, completedDate |-> null,
     notes |-> Str(<<>>), evidenceFiles |-> <<>>]

Catalog ==
    [planning |-> <<
        <<"Threat Modeling", "Conduct threat modeling exercise to identify potential security risks">>,
        <<"Security Requirements Gathering", "Define security requirements and acceptance criteria">> >>,
     design |-> <<
        <<"Security Architecture Review", "Review system architecture for security considerations">>,
        <<"Data Flow Analysis", "Analyze data flows and identify sensitive data handling">> >>,
     implementation |-> <<
        <<"Secure Coding Review", "Review code for secure coding practices">>,
        <<"Dependency Scanning", "Scan dependencies for known vulnerabilities">> >>,
     testing |-> <<
        <<"Security Testing", "Perform security-focused testing scenarios">>,
        <<"Penetration Testing", "Conduct penetration testing on the application">> >>,
     deployment |-> <<
        <<"Security Configuration Review", "Review deployment configuration for security">>,
        <<"Access Control Setup", "Configure proper access controls and permissions">> >>]

\* position of a phase in the object literal of getDefaultTasks
PhaseIndex(p) == CHOOSE i \in 1..Len(PhaseOrder) : PhaseOrder[i] = p

\* the uuid of the k-th task of phase p when base ids were handed out before
TaskUuid(base, p, k) == base + 2 * (PhaseIndex(p) - 1) + k

\* getDefaultTasks without the deployment entry
getDefaultTasksNoDeployment(base) ==
    [p \in PhaseNames \ {"deployment"} |->
        [k \in 1..Len(Catalog[p]) |->
            Task(TaskUuid(base, p, k), p, Catalog[p][k][1], Catalog[p][k][2])]]

\* Task.getDefaultTasks(): ten new Task(...), each drawing its own uuid
getDefaultTasks(base) ==
    [p \in PhaseNames |->
        [k \in 1..Len(Catalog[p]) |->
            Task(TaskUuid(base, p, k), p, Catalog[p][k][1], Catalog[p][k][2])]]

\* uuids one project creation draws: the project's and its ten tasks'
IdsPerProject == 1 + 2 * Len(PhaseOrder)

\* Task.addEvidence on a task record
addEvidence(task, filename) ==
    IF \E i \in 1..Len(task.evidenceFiles) : task.evidenceFiles[i] = filename
    THEN task
    ELSE [task EXCEPT !.evidenceFiles = Append(@, filename)]

----------------------------------------------------------------------------
(* utils/storage.js, over the parsed content of the two JSON files *)

\* Array.prototype.findIndex on ids, 0 standing for -1
FindIndex(seq, id) ==
    IF \E i \in 1..Len(seq) : seq[i].id = id
    THEN CHOOSE i \in 1..Len(seq) :
            /\ seq[i].id = id
            /\ \A j \in 1..(i - 1) : seq[j].id # id
    ELSE 0

\* getProjectById that falls back to the first stored project
getProjectByIdOrFirst(file, projectId) ==
    IF FindIndex(file, projectId) > 0 THEN FindIndex(file, projectId)
    ELSE IF Len(file) > 0 THEN 1 ELSE 0

\* Storage.getProjectById: the index of the project found, 0 for undefined
getProjectById(file, projectId) == FindIndex(file, projectId)

\* saveProject that always pushes
saveProjectAppend(file, project) == Append(file, project)

\* Storage.saveProject: the array handed to writeProjects
saveProject(file, project) ==
    LET existingIndex == FindIndex(file, project.id)
    IN IF existingIndex > 0
       THEN [file EXCEPT ![existingIndex] = project]
       ELSE Append(file, project)

\* Storage.getTasksForProject: allTasks[projectId] || {}
getTasksForProject(file, projectId) ==
    IF projectId \in DOMAIN file THEN file[projectId] ELSE <<>>

\* saveTasksForProject that stores the mapping under every project id
saveTasksForProjectAll(file, projectId, mapping) ==
    [q \in DOMAIN file \cup {projectId} |-> mapping]

\* Storage.saveTasksForProject: the object handed to writeTasks
saveTasksForProject(file, projectId, mapping) ==
    [q \in DOMAIN file \cup {projectId} |->
        IF q = projectId THEN mapping ELSE file[q]]

\* the conversion that writes null for an undefined name
JsonProjectNullName(project) ==
    IF project.name = Undefined THEN [project EXCEPT !.name = JSNull] ELSE project

\* JSON.parse(JSON.stringify(project)): a property whose value is undefined
\* is left out; strings, booleans, null and nested objects come back as they
\* were
JsonProject(project) ==
    IF "name" \in DOMAIN project /\ project.name = Undefined
    THEN [key \in DOMAIN project \ {"name"} |-> project[key]]
    ELSE project

\* reading a property: undefined when the object has none of that name
FieldOf(object, key) == IF key \in DOMAIN object THEN object[key] ELSE Undefined

\* writeProjects: projects.json holds the array as JSON, or stays as it was
writeProjects(old, new, ok) ==
    IF ok THEN [i \in 1..Len(new) |-> JsonProject(new[i])] ELSE old

\* writeTasks: tasks.json holds the object as JSON, or stays as it was
writeTasks(old, new, ok) == IF ok THEN new ELSE old

----------------------------------------------------------------------------
(* server.js: the Express routes over the file store *)

\* the keys "for (const phase in allTasks)" visits, in insertion order
KeysOf(mapping) == SelectSeq(PhaseOrder, LAMBDA p : p \in DOMAIN mapping)

\* the phase at which the loop over the task mapping finds taskId, "" for none
PhaseOfTask(mapping, taskId) ==
    LET keys == KeysOf(mapping)
        hits == {i \in 1..Len(keys) : FindIndex(mapping[keys[i]], taskId) > 0}
    IN IF hits = {} THEN ""
       ELSE keys[CHOOSE i \in hits : \A j \in hits : i <= j]

\* UpdatedTask that stamps only the first completion
UpdatedTaskKeepFirstDate(task, completed, notes, t) ==
    LET t1 == IF completed.t = "boolean"
              THEN [task EXCEPT !.completed = completed.v,
                                !.completedDate = IF completed.v
                                                  THEN (IF @ # null THEN @ ELSE t)
                                                  ELSE null]
              ELSE task
    IN IF notes.t # "undefined" THEN [t1 EXCEPT !.notes = OrEmpty(notes)] ELSE t1

\* UpdatedTask that takes an absent completed for false
UpdatedTaskAbsentIsFalse(task, completed, notes, t) ==
    LET done == completed.t = "boolean" /\ completed.v
        t1 == [task EXCEPT !.completed = done,
                           !.completedDate = IF done THEN t ELSE null]
    IN IF notes.t # "undefined" THEN [t1 EXCEPT !.notes = OrEmpty(notes)] ELSE t1

\* the new completed / completedDate / notes of the task found by the PUT route
UpdatedTask(task, completed, notes, t) ==
    LET t1 == IF completed.t = "boolean"
              THEN [task EXCEPT !.completed = completed.v,
                                !.completedDate = IF completed.v THEN t ELSE null]
              ELSE task
    IN IF notes.t # "undefined" THEN [t1 EXCEPT !.notes = OrEmpty(notes)] ELSE t1

\* UpdateLoop that checks the phase on the tasks as they were loaded
UpdateLoopStale(project, allTasks, taskId, completed, notes, t1, t2) ==
    LET phase == PhaseOfTask(allTasks, taskId)
    IN IF phase = ""
       THEN [taskFound |-> FALSE, allTasks |-> allTasks, project |-> project]
       ELSE LET phaseTaskIndex == FindIndex(allTasks[phase], taskId)
                task == UpdatedTask(allTasks[phase][phaseTaskIndex], completed, notes, t1)
                newTasks == [allTasks EXCEPT ![phase][phaseTaskIndex] = task]
                allPhaseTasksCompleted ==
                    \A i \in 1..Len(allTasks[phase]) : allTasks[phase][i].completed
            IN [taskFound |-> TRUE,
                allTasks |-> newTasks,
                project |-> updatePhaseStatus(project, phase, allPhaseTasksCompleted, t2),
                updatedTask |-> task]

\* UpdateLoop that asks whether some task of the phase is completed
UpdateLoopAny(project, allTasks, taskId, completed, notes, t1, t2) ==
    LET phase == PhaseOfTask(allTasks, taskId)
    IN IF phase = ""
       THEN [taskFound |-> FALSE, allTasks |-> allTasks, project |-> project]
       ELSE LET phaseTaskIndex == FindIndex(allTasks[phase], taskId)
                task == UpdatedTask(allTasks[phase][phaseTaskIndex], completed, notes, t1)
                newTasks == [allTasks EXCEPT ![phase][phaseTaskIndex] = task]
                allPhaseTasksCompleted ==
                    \E i \in 1..Len(newTasks[phase]) : newTasks[phase][i].completed
            IN [taskFound |-> TRUE,
                allTasks |-> newTasks,
                project |-> updatePhaseStatus(project, phase, allPhaseTasksCompleted, t2),
                updatedTask |-> task]

\* UpdateLoop that recomputes every phase of the mapping, not only the phase
\* the task was found in
UpdateLoopEveryPhase(project, allTasks, taskId, completed, notes, t1, t2) ==
    LET phase == PhaseOfTask(allTasks, taskId)
    IN IF phase = ""
       THEN [taskFound |-> FALSE, allTasks |-> allTasks, project |-> project]
       ELSE LET phaseTaskIndex == FindIndex(allTasks[phase], taskId)
                task == UpdatedTask(allTasks[phase][phaseTaskIndex], completed, notes, t1)
                newTasks == [allTasks EXCEPT ![phase][phaseTaskIndex] = task]
                every(p) == \A i \in 1..Len(newTasks[p]) : newTasks[p][i].completed
                phases == [p \in DOMAIN project.phases |->
                              IF p \in DOMAIN newTasks
                              THEN [completed |-> every(p),
                                    completedDate |-> IF every(p) THEN t2 ELSE null]
                              ELSE project.phases[p]]
            IN [taskFound |-> TRUE,
                allTasks |-> newTasks,
                project |-> [project EXCEPT
                                !.phases = phases,
                                !.overallStatus =
                                    IF \A p \in DOMAIN phases : phases[p].completed
                                    THEN "Completed" ELSE "In Progress"],
                updatedTask |-> task]

\* the loop of PUT /api/projects/:id/tasks/:taskId: finds the task, updates it
\* (clock reading t1) and recomputes its phase (clock reading t2)
UpdateLoop(project, allTasks, taskId, completed, notes, t1, t2) ==
    LET phase == PhaseOfTask(allTasks, taskId)
    IN IF phase = ""
       THEN [taskFound |-> FALSE, allTasks |-> allTasks, project |-> project]
       ELSE LET phaseTaskIndex == FindIndex(allTasks[phase], taskId)
                task == UpdatedTask(allTasks[phase][phaseTaskIndex], completed, notes, t1)
                newTasks == [allTasks EXCEPT ![phase][phaseTaskIndex] = task]
                allPhaseTasksCompleted ==
                    \A i \in 1..Len(newTasks[phase]) : newTasks[phase][i].completed
            IN [taskFound |-> TRUE,
                allTasks |-> newTasks,
                project |-> updatePhaseStatus(project, phase, allPhaseTasksCompleted, t2),
                updatedTask |-> task]

\* a route parameter that is only whitespace
BlankId == 0

\* the body of POST /api/projects on the files pf and tf, base being the ids
\* drawn so far: the response, the files it leaves and the number of ids drawn
ExpressCreate(pf, tf, base, name, t, projectSaved, tasksSaved) ==
    IF ~ validate(name)
    THEN [response |-> [status |-> 400,
                        error |-> "Project name is required and must be a non-empty string"],
          projectsFile |-> pf, tasksFile |-> tf, ids |-> 0]
    ELSE LET project == Project(base + 1, name, t)
             written == writeProjects(pf, saveProject(pf, project), projectSaved)
         IN IF ~ projectSaved
            THEN [response |-> [status |-> 500, error |-> "Failed to save project"],
                  projectsFile |-> written, tasksFile |-> tf, ids |-> 1]
            ELSE [response |-> [status |-> 201, error |-> "", project |-> project],
                  projectsFile |-> written,
                  tasksFile |-> writeTasks(tf,
                                    saveTasksForProject(tf, project.id,
                                                        getDefaultTasks(base + 1)),
                                    tasksSaved),
                  ids |-> IdsPerProject]

\* POST /api/projects
ExpressCreateProject(name, t, projectSaved, tasksSaved) ==
    /\ deploy = "express"
    /\ now' = t
    /\ UNCHANGED <<deploy, projects, tasks, page, network>>
    /\ \E out \in {ExpressCreate(projectsFile, tasksFile, nextId, name, t,
                                 projectSaved, tasksSaved)} :
          /\ projectsFile' = out.projectsFile
          /\ tasksFile' = out.tasksFile
          /\ nextId' = nextId + out.ids
          /\ last' = [op |-> "create", name |-> name, time |-> t] @@ out.response

\* the body of PUT /api/projects/:id/tasks/:taskId on the files pf and tf:
\* the response and the files it leaves
ExpressUpdate(pf, tf, projectId, taskId, completed, notes, t1, t2, tasksSaved, projectSaved) ==
    LET reject(status, error) ==
            [response |-> [status |-> status, error |-> error],
             projectsFile |-> pf, tasksFile |-> tf]
    IN IF projectId = BlankId THEN reject(400, "Invalid project ID")
       ELSE IF taskId = BlankId THEN reject(400, "Invalid task ID")
       ELSE IF completed.t \notin {"undefined", "boolean"}
            THEN reject(400, "Completed field must be a boolean value")
       ELSE IF notes.t \notin {"undefined", "string"}
            THEN reject(400, "Notes field must be a string")
       ELSE IF getProjectById(pf, projectId) = 0
            THEN reject(404, "Project not found")
       ELSE LET r == UpdateLoop(pf[getProjectById(pf, projectId)],
                                getTasksForProject(tf, projectId),
                                taskId, completed, notes, t1, t2)
            IN IF ~ r.taskFound THEN reject(404, "Task not found")
               ELSE [response |-> IF ~ tasksSaved \/ ~ projectSaved
                                  THEN [status |-> 500, error |-> "Failed to save updates"]
                                  ELSE [status |-> 200, error |-> ""],
                     projectsFile |-> writeProjects(pf, saveProject(pf, r.project),
                                                    projectSaved),
                     tasksFile |-> writeTasks(tf,
                                       saveTasksForProject(tf, projectId, r.allTasks),
                                       tasksSaved)]

\* PUT /api/projects/:id/tasks/:taskId
ExpressUpdateTask(projectId, taskId, completed, notes, t1, t2, tasksSaved, projectSaved) ==
    /\ deploy = "express"
    /\ now' = t2
    /\ UNCHANGED <<deploy, projects, tasks, nextId, page, network>>
    /\ \E out \in {ExpressUpdate(projectsFile, tasksFile, projectId, taskId,
                                 completed, notes, t1, t2, tasksSaved, projectSaved)} :
          /\ projectsFile' = out.projectsFile
          /\ tasksFile' = out.tasksFile
          /\ last' = [op |-> "update", projectId |-> projectId, taskId |-> taskId,
                      completed |-> completed, notes |-> notes, time |-> t1]
                     @@ out.response

\* path.join(projectId, taskId, file.filename)
RelativePath(projectId, taskId, filename) == <<projectId, taskId, filename>>

\* Array.prototype.includes
Includes(seq, x) == \E i \in 1..Len(seq) : seq[i] = x

\* the forEach without the includes test
RECURSIVE AttachFilesAlways(_, _, _, _)
AttachFilesAlways(task, projectId, taskId, files) ==
    IF files = <<>> THEN task
    ELSE AttachFilesAlways(
            [task EXCEPT !.evidenceFiles =
                Append(@, RelativePath(projectId, taskId, Head(files)))],
            projectId, taskId, Tail(files))

\* req.files.forEach of the evidence route: push every path not yet included
RECURSIVE AttachFiles(_, _, _, _)
AttachFiles(task, projectId, taskId, files) ==
    IF files = <<>> THEN task
    ELSE LET relativePath == RelativePath(projectId, taskId, Head(files))
             pushed == IF ~ Includes(task.evidenceFiles, relativePath)
                       THEN [task EXCEPT !.evidenceFiles = Append(@, relativePath)]
                       ELSE task
         IN AttachFiles(pushed, projectId, taskId, Tail(files))

\* POST /api/projects/:projectId/tasks/:taskId/evidence, after multer stored
\* the uploaded files under the names in files
ExpressUploadEvidence(projectId, taskId, files, t, tasksSaved) ==
    LET req == [op |-> "evidence", projectId |-> projectId, taskId |-> taskId,
                files |-> files, time |-> t]
        allTasks == getTasksForProject(tasksFile, projectId)
    IN /\ deploy = "express"
       /\ now' = t
       /\ UNCHANGED <<deploy, projects, tasks, nextId, projectsFile, page,
                      network>>
       /\ IF getProjectById(projectsFile, projectId) = 0
          THEN /\ last' = req @@ [status |-> 404, error |-> "Project not found"]
               /\ UNCHANGED tasksFile
          ELSE \E phase \in {PhaseOfTask(allTasks, taskId)} :
                 IF phase = ""
                 THEN /\ last' = req @@ [status |-> 404, error |-> "Task not found"]
                      /\ UNCHANGED tasksFile
                 ELSE \E phaseTaskIndex \in {FindIndex(allTasks[phase], taskId)} :
                        /\ tasksFile' = writeTasks(tasksFile,
                              saveTasksForProject(tasksFile, projectId,
                                 [allTasks EXCEPT ![phase][phaseTaskIndex] =
                                     AttachFiles(@, projectId, taskId, files)]),
                              tasksSaved)
                        /\ IF ~ tasksSaved
                           THEN last' = req @@ [status |-> 500,
                                                error |-> "Failed to save task updates"]
                           ELSE last' = req @@ [status |-> 200, error |-> ""]

\* a decoded :filename parameter is a list of segments: names and ".."
Up == [k |-> "up"]

Seg(v) == [k |-> "seg", v |-> v]

\* path.join: the segments appended to acc, each ".." taking one back
RECURSIVE NormalizePath(_, _)
NormalizePath(acc, segs) ==
    IF segs = <<>> THEN acc
    ELSE IF Head(segs).k = "up"
         THEN NormalizePath(IF acc = <<>> THEN acc ELSE SubSeq(acc, 1, Len(acc) - 1),
                            Tail(segs))
         ELSE NormalizePath(Append(acc, Head(segs).v), Tail(segs))

\* path.join(projectId, taskId, filename) of the download route
JoinPath(projectId, taskId, filename) == NormalizePath(<<projectId, taskId>>, filename)

\* the authorization that accepts a path listed by any task of the project
FileAuthorizedAnyTask(allTasks, phase, taskId, relativePath) ==
    \E ph \in DOMAIN allTasks : \E k \in 1..Len(allTasks[ph]) :
        \E i \in 1..Len(allTasks[ph][k].evidenceFiles) :
            /\ Len(allTasks[ph][k].evidenceFiles[i]) = Len(relativePath)
            /\ allTasks[ph][k].evidenceFiles[i] = relativePath

\* task.evidenceFiles.includes(relativePath) for the task found in phase
FileAuthorized(allTasks, phase, taskId, relativePath) ==
    LET task == allTasks[phase][FindIndex(allTasks[phase], taskId)]
    IN \E i \in 1..Len(task.evidenceFiles) :
          /\ Len(task.evidenceFiles[i]) = Len(relativePath)
          /\ task.evidenceFiles[i] = relativePath

\* GET /api/projects/:projectId/tasks/:taskId/evidence/:filename; exists is
\* what fs.existsSync answers for the file under the uploads directory
ExpressDownloadEvidence(projectId, taskId, filename, exists) ==
    LET req == [op |-> "download", projectId |-> projectId, taskId |-> taskId,
                filename |-> filename]
        allTasks == getTasksForProject(tasksFile, projectId)
    IN /\ deploy = "express"
       /\ UNCHANGED <<deploy, projectsFile, tasksFile, projects, tasks,
                      nextId, now, page, network>>
       /\ IF getProjectById(projectsFile, projectId) = 0
          THEN last' = req @@ [status |-> 404, error |-> "Project not found"]
          ELSE \E phase \in {PhaseOfTask(allTasks, taskId)} :
                 IF phase = ""
                 THEN last' = req @@ [status |-> 404, error |-> "Task not found"]
                 ELSE \E relativePath \in {JoinPath(projectId, taskId, filename)} :
                        IF ~ FileAuthorized(allTasks, phase, taskId, relativePath)
                        THEN last' = req @@ [status |-> 403,
                                             error |-> "File not authorized for this task"]
                        ELSE IF ~ exists
                        THEN last' = req @@ [status |-> 404, error |-> "File not found"]
                        ELSE last' = req @@ [status |-> 200, error |-> "",
                                             served |-> relativePath]

\* Math.floor in place of Math.round
RoundPercentFloor(num, den) == (100 * num) \div den

\* Math.round((num / den) * 100) for 0 <= num <= den, den > 0: the nearest
\* integer, a half rounded up (the double arithmetic is exact enough for that
\* as long as den < 40)
RoundPercent(num, den) == (200 * num + den) \div (2 * den)

\* the filter that lets every task through
CountCompletedAll(phaseTasks) == Len(phaseTasks)

\* tasks[phase].filter(task => task.completed).length
CountCompleted(phaseTasks) ==
    Cardinality({k \in 1..Len(phaseTasks) : phaseTasks[k].completed})

\* the statistics loop of the report route: phaseStats of the first n keys
\* and the running totals
RECURSIVE StatsLoop(_, _, _)
StatsLoop(mapping, keys, n) ==
    IF n = 0
    THEN [totalTasks |-> 0, completedTasks |-> 0, phaseStats |-> <<>>]
    ELSE LET acc == StatsLoop(mapping, keys, n - 1)
             phaseTasks == mapping[keys[n]]
             phaseCompleted == CountCompleted(phaseTasks)
         IN [totalTasks |-> acc.totalTasks + Len(phaseTasks),
             completedTasks |-> acc.completedTasks + phaseCompleted,
             phaseStats |-> Append(acc.phaseStats,
                 [phase |-> keys[n],
                  total |-> Len(phaseTasks),
                  completed |-> phaseCompleted,
                  percentage |-> IF Len(phaseTasks) > 0
                                 THEN RoundPercent(phaseCompleted, Len(phaseTasks))
                                 ELSE 0])]

\* ReportStats whose score is the share of the phases that are completed
ReportStatsByPhase(mapping) ==
    LET stats == StatsLoop(mapping, KeysOf(mapping), Len(KeysOf(mapping)))
        full == Cardinality({k \in 1..Len(stats.phaseStats) :
                                stats.phaseStats[k].completed = stats.phaseStats[k].total})
    IN stats @@ [overallSecurityScore |->
                    IF stats.totalTasks > 0
                    THEN RoundPercent(full, Len(stats.phaseStats))
                    ELSE 0]

\* overallSecurityScore and the statistics it is computed from
ReportStats(mapping) ==
    LET stats == StatsLoop(mapping, KeysOf(mapping), Len(KeysOf(mapping)))
    IN stats @@ [overallSecurityScore |->
                    IF stats.totalTasks > 0
                    THEN RoundPercent(stats.completedTasks, stats.totalTasks)
                    ELSE 0]

\* the phase indicator that knows no "In Progress"
PhaseMarkerTwoValued(project, stats) ==
    IF stats.phase \in DOMAIN project.phases /\ project.phases[stats.phase].completed
    THEN "Phase Complete"
    ELSE "Not Started"

\* the phase completion indicator written next to a phase's statistics
PhaseMarker(project, stats) ==
    IF stats.phase \in DOMAIN project.phases /\ project.phases[stats.phase].completed
    THEN "Phase Complete"
    ELSE IF stats.completed > 0 THEN "In Progress"
    ELSE "Not Started"

\* the indicators of all phases, in the order of phaseStats
PhaseMarkers(project, phaseStats) ==
    [i \in 1..Len(phaseStats) |->
        [phase |-> phaseStats[i].phase, marker |-> PhaseMarker(project, phaseStats[i])]]

\* task.notes.length > 80, substring(0, 80)
NotesLimit == 80

Ellipsis == <<".", ".", ".">>

\* the notes line that is never cut
NotesLineUncut(task) ==
    IF Falsy(task.notes) \/ Len(Trim(task.notes.v)) = 0
    THEN JSNull
    ELSE Str(task.notes.v)

\* the "Notes:" line of a completed task: none for blank notes, else the
\* notes, cut after NotesLimit characters and marked with "..."
NotesLine(task) ==
    IF Falsy(task.notes) \/ Len(Trim(task.notes.v)) = 0
    THEN JSNull
    ELSE IF Len(task.notes.v) > NotesLimit
         THEN Str(SubSeq(task.notes.v, 1, NotesLimit) \o Ellipsis)
         ELSE Str(task.notes.v)

\* what the report writes for a completed task
CompletedEntry(phase, task) ==
    [phase |-> phase, id |-> task.id, title |-> task.title,
     completedDate |-> task.completedDate,
     notesLine |-> NotesLine(task),
     evidence |-> Len(task.evidenceFiles)]

\* what the report writes for an outstanding task
OutstandingEntry(phase, task) == [phase |-> phase, id |-> task.id, title |-> task.title]

\* the completed section without the filter
RECURSIVE CompletedSectionUnfiltered(_, _, _)
CompletedSectionUnfiltered(mapping, keys, n) ==
    IF n = 0 THEN <<>>
    ELSE CompletedSectionUnfiltered(mapping, keys, n - 1)
         \o [k \in 1..Len(mapping[keys[n]]) |-> CompletedEntry(keys[n], mapping[keys[n]][k])]

\* "Completed Security Tasks": for each phase in turn its completed tasks
RECURSIVE CompletedSection(_, _, _)
CompletedSection(mapping, keys, n) ==
    IF n = 0 THEN <<>>
    ELSE LET completedPhaseTasks == SelectSeq(mapping[keys[n]], LAMBDA task : task.completed)
         IN CompletedSection(mapping, keys, n - 1)
            \o [k \in 1..Len(completedPhaseTasks) |->
                   CompletedEntry(keys[n], completedPhaseTasks[k])]

\* "Outstanding Security Tasks": for each phase in turn its open tasks
RECURSIVE OutstandingSection(_, _, _)
OutstandingSection(mapping, keys, n) ==
    IF n = 0 THEN <<>>
    ELSE LET incompleteInPhase == SelectSeq(mapping[keys[n]], LAMBDA task : ~ task.completed)
         IN OutstandingSection(mapping, keys, n - 1)
            \o [k \in 1..Len(incompleteInPhase) |->
                   OutstandingEntry(keys[n], incompleteInPhase[k])]

\* the content of the PDF: statistics, phase indicators and the two sections
ReportContent(project, mapping) ==
    LET stats == ReportStats(mapping)
        keys == KeysOf(mapping)
    IN stats @@ [markers |-> PhaseMarkers(project, stats.phaseStats),
                 completedSection |-> CompletedSection(mapping, keys, Len(keys)),
                 outstandingSection |-> OutstandingSection(mapping, keys, Len(keys))]

\* GET /api/projects/:id/report: the content the PDF is written from
ExpressGetReport(id, t) ==
    /\ deploy = "express"
    /\ now' = t
    /\ UNCHANGED <<deploy, projectsFile, tasksFile, projects, tasks, nextId,
                   page, network>>
    /\ IF getProjectById(projectsFile, id) = 0
       THEN last' = [op |-> "report", projectId |-> id, time |-> t,
                     status |-> 404, error |-> "Project not found"]
       ELSE last' = [op |-> "report", projectId |-> id, time |-> t,
                     status |-> 200, error |-> ""]
                    @@ ReportContent(projectsFile[getProjectById(projectsFile, id)],
                                     getTasksForProject(tasksFile, id))

----------------------------------------------------------------------------
(* public/reports.js: the statistics the browser computes for the preview *)

\* the loop of calculateProjectStats over the first n phases
RECURSIVE ClientStatsLoop(_, _, _)
ClientStatsLoop(mapping, keys, n) ==
    IF n = 0
    THEN [totalTasks |-> 0, completedTasks |-> 0, phaseStats |-> <<>>,
          taskStats |-> [completed |-> <<>>, outstanding |-> <<>>]]
    ELSE LET acc == ClientStatsLoop(mapping, keys, n - 1)
             phase == keys[n]
             phaseTasks == mapping[phase]
             phaseCompleted == SelectSeq(phaseTasks, LAMBDA task : task.completed)
             phaseOpen == SelectSeq(phaseTasks, LAMBDA task : ~ task.completed)
         IN [totalTasks |-> acc.totalTasks + Len(phaseTasks),
             completedTasks |-> acc.completedTasks + Len(phaseCompleted),
             phaseStats |-> Append(acc.phaseStats,
                 [phase |-> phase,
                  total |-> Len(phaseTasks),
                  completed |-> Len(phaseCompleted),
                  percentage |-> IF Len(phaseTasks) > 0
                                 THEN RoundPercent(Len(phaseCompleted), Len(phaseTasks))
                                 ELSE 0]),
             taskStats |->
                 [completed |-> acc.taskStats.completed
                      \o [k \in 1..Len(phaseCompleted) |->
                             [phaseCompleted[k] EXCEPT !.phase = phase]],
                  outstanding |-> acc.taskStats.outstanding
                      \o [k \in 1..Len(phaseOpen) |->
                             [phaseOpen[k] EXCEPT !.phase = phase]]]]

\* ReportsManager.calculateProjectStats(projectData)
calculateProjectStats(mapping) ==
    LET stats == ClientStatsLoop(mapping, KeysOf(mapping), Len(KeysOf(mapping)))
    IN stats @@ [overallScore |->
                    IF stats.totalTasks > 0
                    THEN RoundPercent(stats.completedTasks, stats.totalTasks)
                    ELSE 0]

\* ReportsManager.displayPhaseSummary: the status class of every phase
displayPhaseSummary(phaseStats, projectPhases) ==
    [i \in 1..Len(phaseStats) |->
        LET phase == phaseStats[i].phase
            isPhaseComplete == phase \in DOMAIN projectPhases /\ projectPhases[phase].completed
        IN [phase |-> phase,
            statusClass |-> IF isPhaseComplete THEN "completed"
                            ELSE IF phaseStats[i].completed > 0 THEN "in-progress"
                            ELSE "not-started"]]

----------------------------------------------------------------------------
(* netlify/functions/projects.js: the same API over module-level arrays *)

\* new Project(name) of the function's own Project class
ProjectFn(id, name, t) ==
    [id |-> id,
     name |-> name,
     createdDate |-> t,
     phases |-> [p \in PhaseNames |-> [completed |-> FALSE, completedDate |-> null]],
     overallStatus |-> "In Progress"]

\* updatePhaseStatus of the function's own Project class
updatePhaseStatusFn(project, phase, completed, t) ==
    LET phases == [project.phases EXCEPT ![phase] =
                      [completed |-> completed,
                       completedDate |-> IF completed THEN t ELSE null]]
        allPhasesCompleted == \A p \in DOMAIN phases : phases[p].completed
    IN [project EXCEPT !.phases = phases,
                       !.overallStatus = IF allPhasesCompleted THEN "Completed"
                                         ELSE "In Progress"]

\* getDefaultTasks of the function's own Task class (same catalog literal)
getDefaultTasksFn(base) ==
    [p \in PhaseNames |->
        [k \in 1..Len(Catalog[p]) |->
            [id |-> TaskUuid(base, p, k), phase |-> p,
             title |-> Catalog[p][k][1], description |-> Catalog[p][k][2],
             completed |-> FALSE, completedDate |-> null,
             notes |-> Str(<<>>), evidenceFiles |-> <<>>]]]

\* the POST /projects branch on the module state ps and ts, base being the
\* ids drawn so far: the response, the state it leaves and the number of ids
\* drawn
NetlifyCreate(ps, ts, base, name, t) ==
    IF Falsy(name) \/ name.t # "string" \/ Len(Trim(name.v)) = 0
    THEN [response |-> [status |-> 400,
                        error |-> "Project name is required and must be a non-empty string"],
          projects |-> ps, tasks |-> ts, ids |-> 0]
    ELSE LET project == ProjectFn(base + 1, name, t)
         IN [response |-> [status |-> 201, error |-> "", project |-> project],
             projects |-> Append(ps, project),
             tasks |-> [q \in DOMAIN ts \cup {project.id} |->
                           IF q = project.id THEN getDefaultTasksFn(base + 1)
                           ELSE ts[q]],
             ids |-> IdsPerProject]

\* POST /projects
NetlifyCreateProject(name, t) ==
    /\ deploy = "netlify"
    /\ now' = t
    /\ UNCHANGED <<deploy, projectsFile, tasksFile, page, network>>
    /\ \E out \in {NetlifyCreate(projects, tasks, nextId, name, t)} :
          /\ projects' = out.projects
          /\ tasks' = out.tasks
          /\ nextId' = nextId + out.ids
          /\ last' = [op |-> "create", name |-> name, time |-> t] @@ out.response

\* UpdatedTaskFn that leaves the notes alone
UpdatedTaskFnNoNotes(task, completed, notes, t) ==
    IF completed.t = "boolean"
    THEN [task EXCEPT !.completed = completed.v,
                      !.completedDate = IF completed.v THEN t ELSE null]
    ELSE task

\* the task the PUT branch leaves behind: completed / completedDate / notes
UpdatedTaskFn(task, completed, notes, t) ==
    LET completedSet == IF completed.t = "boolean"
                        THEN [task EXCEPT !.completed = completed.v,
                                          !.completedDate = IF completed.v THEN t ELSE null]
                        ELSE task
    IN IF notes.t # "undefined"
       THEN [completedSet EXCEPT !.notes = OrEmpty(notes)]
       ELSE completedSet

\* the PUT /projects/:id/tasks/:taskId branch on the module state ps and ts:
\* the response and the state it leaves
NetlifyUpdate(ps, ts, projectId, taskId, completed, notes, t1, t2) ==
    LET projectTasks == IF projectId \in DOMAIN ts THEN ts[projectId] ELSE <<>>
        index == FindIndex(ps, projectId)
        phase == PhaseOfTask(projectTasks, taskId)
        reject(status, error) ==
            [response |-> [status |-> status, error |-> error],
             projects |-> ps, tasks |-> ts]
    IN IF index = 0 THEN reject(404, "Project not found")
       ELSE IF phase = "" THEN reject(404, "Task not found")
       ELSE LET phaseTaskIndex == FindIndex(projectTasks[phase], taskId)
                newPhaseTasks == [projectTasks[phase] EXCEPT ![phaseTaskIndex] =
                                     UpdatedTaskFn(@, completed, notes, t1)]
                allPhaseTasksCompleted ==
                    \A i \in 1..Len(newPhaseTasks) : newPhaseTasks[i].completed
            IN [response |-> [status |-> 200, error |-> ""],
                projects |-> [ps EXCEPT ![index] =
                                 updatePhaseStatusFn(@, phase, allPhaseTasksCompleted, t2)],
                tasks |-> [ts EXCEPT ![projectId][phase] = newPhaseTasks]]

\* PUT /projects/:id/tasks/:taskId
NetlifyUpdateTask(projectId, taskId, completed, notes, t1, t2) ==
    /\ deploy = "netlify"
    /\ now' = t2
    /\ UNCHANGED <<deploy, projectsFile, tasksFile, nextId, page, network>>
    /\ \E out \in {NetlifyUpdate(projects, tasks, projectId, taskId,
                                 completed, notes, t1, t2)} :
          /\ projects' = out.projects
          /\ tasks' = out.tasks
          /\ last' = [op |-> "update", projectId |-> projectId, taskId |-> taskId,
                      completed |-> completed, notes |-> notes, time |-> t1]
                     @@ out.response

----------------------------------------------------------------------------
(* public/checklist.js: the checklist page *)

\* the Checklist object as its constructor leaves it
NewChecklist == [projectId |-> null, project |-> null, tasks |-> <<>>]

\* no request and no response on its way
NoTraffic == [requests |-> {}, responses |-> {}]

\* the task with the given id in this.tasks, JSNull when no phase has it
FindLocalTask(localTasks, taskId) ==
    LET phase == PhaseOfTask(localTasks, taskId)
    IN IF phase = "" THEN JSNull
       ELSE localTasks[phase][FindIndex(localTasks[phase], taskId)]

\* the body updateTaskStatus sends: the new completed value and the notes of
\* the task as this.tasks has them
StatusBody(localTasks, taskId, completed) ==
    LET task == FindLocalTask(localTasks, taskId)
    IN [completed |-> Bool(completed),
        notes |-> IF task = JSNull THEN Str(<<>>) ELSE OrEmpty(task.notes)]

\* the body updateTaskNotes sends: the new notes and the completed value of
\* the task as this.tasks has it
NotesBody(localTasks, taskId, notes) ==
    LET task == FindLocalTask(localTasks, taskId)
    IN [completed |-> IF task = JSNull THEN Bool(FALSE) ELSE Bool(task.completed),
        notes |-> notes]

\* updateLocalTaskData: the task replaced in the first phase that has its id
updateLocalTaskData(localTasks, updatedTask) ==
    LET phase == PhaseOfTask(localTasks, updatedTask.id)
    IN IF phase = "" THEN localTasks
       ELSE [localTasks EXCEPT
                ![phase][FindIndex(localTasks[phase], updatedTask.id)] = updatedTask]

----------------------------------------------------------------------------
(* The requests clients send *)

NameInputs == {Undefined, Num(7), Str(<<>>), Str(<<" ">>), Str(<<" ", "A">>)}

\* request bodies of the PUT route: every well-typed combination, and each
\* ill-typed field next to a well-typed one
BodyInputs ==
    {[completed |-> c, notes |-> n] :
        c \in {Undefined, Bool(TRUE), Bool(FALSE)},
        n \in {Undefined, Str(<<>>), Str(<<"n">>)}}
    \cup {[completed |-> Str(<<"y">>), notes |-> Str(<<"n">>)],
          [completed |-> Bool(TRUE), notes |-> Num(5)],
          [completed |-> Undefined, notes |-> JSNull]}

FileNames == {"a.pdf", "b.png"}

RECURSIVE SeqsUpTo(_, _)
SeqsUpTo(S, n) ==
    IF n = 0 THEN {<<>>}
    ELSE LET shorter == SeqsUpTo(S, n - 1)
         IN shorter \cup {Append(q, x) : q \in shorter, x \in S}

FileInputs == SeqsUpTo(FileNames, MaxFiles)

\* the stored projects and task mappings of the running deployment
Stored == IF deploy = "express" THEN projectsFile ELSE projects

StoredTasks == IF deploy = "express" THEN tasksFile ELSE tasks

StoredIds == {Stored[i].id : i \in 1..Len(Stored)}

\* the ids of the tasks stored for a project, in the phases given
TaskIdsIn(projectId, phases) ==
    IF projectId \notin DOMAIN StoredTasks THEN {}
    ELSE UNION {{StoredTasks[projectId][p][k].id :
                    k \in 1..Len(StoredTasks[projectId][p])} :
                p \in phases \cap DOMAIN StoredTasks[projectId]}

\* the phases whose tasks the clients of Spec work on
ClientPhases == {"design"}

\* the client tasks of a stored project, and the ones uploads go to
ClientTaskIds(projectId) == TaskIdsIn(projectId, ClientPhases)

UploadTaskIds(projectId) ==
    {StoredTasks[projectId][ph][1].id : ph \in ClientPhases \cap DOMAIN StoredTasks[projectId]}

\* (project id, task id) pairs that name no task of the project: a task of
\* another project, an unknown or a blank task id, an unknown or a blank
\* project id
BadIds ==
    LET taskIds == UNION {ClientTaskIds(q) : q \in StoredIds}
    IN {ids \in StoredIds \X (taskIds \cup {nextId + 1, BlankId}) :
           ids[2] \notin ClientTaskIds(ids[1])}
       \cup {<<nextId + 1, tid>> : tid \in taskIds \cup {nextId + 1}}
       \cup {<<BlankId, nextId + 1>>}

\* the task updates of Spec: every body on every client task, a completion
\* under every bad pair of ids, an ill-typed body under unknown ids
UpdateRequests ==
    UNION {{<<q, tid, body>> : tid \in ClientTaskIds(q), body \in BodyInputs} :
              q \in StoredIds}
    \cup {<<ids[1], ids[2], [completed |-> Bool(TRUE), notes |-> Undefined]>> :
             ids \in BadIds}
    \cup {<<nextId + 1, nextId + 1, [completed |-> Str(<<"y">>), notes |-> Undefined]>>}

\* the uploads of Spec: every list of files on the upload tasks, one file
\* under every bad pair of ids
UploadRequests ==
    UNION {{<<q, tid, files>> : tid \in UploadTaskIds(q), files \in FileInputs} :
              q \in StoredIds}
    \cup {<<ids[1], ids[2], <<"a.pdf">> >> : ids \in BadIds}

\* the downloads of Spec: under every client task the file names, plain and
\* reached by way of ".." from another task or another project; one plain
\* name under every bad pair of ids
DownloadRequests ==
    LET taskIds == UNION {ClientTaskIds(q) : q \in StoredIds}
        owners == {<<q, tid>> : q \in StoredIds, tid \in taskIds}
    IN UNION {{<<q, tid, <<Seg(f)>> >> : tid \in ClientTaskIds(q), f \in FileNames} :
                 q \in StoredIds}
       \cup UNION {{<<q, pair[1], <<Up, Seg(pair[2]), Seg("a.pdf")>> >> :
                       pair \in {x \in ClientTaskIds(q) \X ClientTaskIds(q) : x[1] # x[2]}} :
                   q \in StoredIds}
       \cup UNION {{<<q, tid, <<Up, Up, Seg(o[1]), Seg(o[2]), Seg("a.pdf")>> >> :
                       tid \in ClientTaskIds(q),
                       o \in {x \in owners : x[1] # q /\ x[2] \in UploadTaskIds(x[1])}} :
                   q \in StoredIds}
       \cup {<<ids[1], ids[2], <<Seg("a.pdf")>> >> : ids \in BadIds}

----------------------------------------------------------------------------
Init ==
    /\ deploy \in {"express", "netlify"}
    /\ projectsFile = <<>>
    /\ tasksFile = <<>>
    /\ projects = <<>>
    /\ tasks = <<>>
    /\ nextId = 0
    /\ now = 0
    /\ last = [op |-> "none", status |-> 0, error |-> ""]
    /\ page = NewChecklist
    /\ network = NoTraffic

CreateProject(t) ==
    /\ Len(Stored) < MaxProjects
    /\ \E name \in NameInputs :
          \/ ExpressCreateProject(name, t, TRUE, TRUE)
          \/ NetlifyCreateProject(name, t)

UpdateTask(t1, t2) ==
    \E r \in UpdateRequests :
          \/ ExpressUpdateTask(r[1], r[2], r[3].completed, r[3].notes, t1, t2, TRUE, TRUE)
          \/ NetlifyUpdateTask(r[1], r[2], r[3].completed, r[3].notes, t1, t2)

UploadEvidence(t) ==
    \E r \in UploadRequests : ExpressUploadEvidence(r[1], r[2], r[3], t, TRUE)

\* a download reads no clock; a file that is listed may be gone from the disk
DownloadEvidence ==
    \E r \in DownloadRequests, exists \in BOOLEAN :
       ExpressDownloadEvidence(r[1], r[2], r[3], exists)

\* every request arrives one clock tick after the one before; the phase
\* recomputation reads the clock again, in the same tick or the next
Next ==
    /\ now < MaxClock
    /\ \/ CreateProject(now + 1)
       \/ \E t2 \in {t \in {now + 1, now + 2} : t <= MaxClock} :
             UpdateTask(now + 1, t2)
       \/ UploadEvidence(now + 1)
       \/ DownloadEvidence

Spec == Init /\ [][Next]_vars

----------------------------------------------------------------------------
(* The lifecycle of one project: any number of requests on all ten tasks,  *)
(* all within one clock tick.                                              *)

\* completion toggles go to every task and to an unknown one, a notes change
\* to the first client task
LifecycleRequests ==
    LET all == UNION {TaskIdsIn(q, PhaseNames) : q \in StoredIds}
        noted == {StoredTasks[q][ph][1].id : q \in StoredIds, ph \in ClientPhases}
    IN {<<tid, [completed |-> Bool(b), notes |-> Undefined]>> :
            tid \in all \cup {nextId + 1}, b \in BOOLEAN}
       \cup {<<tid, [completed |-> Undefined, notes |-> Str(<<"n">>)]>> : tid \in noted}

CreateOnlyProject ==
    /\ Len(Stored) = 0
    /\ \E name \in {Str(<<" ">>), Str(<<" ", "A">>)} :
          \/ ExpressCreateProject(name, 1, TRUE, TRUE)
          \/ NetlifyCreateProject(name, 1)

UpdateOnlyProject ==
    \E projectId \in StoredIds, r \in LifecycleRequests :
          \/ ExpressUpdateTask(projectId, r[1], r[2].completed, r[2].notes,
                               1, 1, TRUE, TRUE)
          \/ NetlifyUpdateTask(projectId, r[1], r[2].completed, r[2].notes, 1, 1)

\* the report of the project, asked for in the Express deployment
ReportOnlyProject == \E id \in StoredIds : ExpressGetReport(id, 1)

NextOne == CreateOnlyProject \/ UpdateOnlyProject \/ ReportOnlyProject

SpecOne == Init /\ [][NextOne]_vars

----------------------------------------------------------------------------
(* The report as a function of the stored task mapping: the files hold one *)
(* project whose phases have from zero to MaxPhaseTasks tasks, any number  *)
(* of them completed.                                                      *)

\* a phase list of n tasks of which the first c are completed
PhaseList(base, p, n, c) ==
    [k \in 1..n |->
        [Task(base + MaxPhaseTasks * (PhaseIndex(p) - 1) + k, p, "task", "") EXCEPT
            !.completed = k <= c,
            !.completedDate = IF k <= c THEN 1 ELSE null]]

\* the task mappings the report is computed from
ReportMappings ==
    LET shapes == {nc \in (0..MaxPhaseTasks) \X (0..MaxPhaseTasks) : nc[2] <= nc[1]}
    IN {[p \in PhaseNames |-> PhaseList(1, p, f[p][1], f[p][2])] :
           f \in [PhaseNames -> shapes]}

\* the project stored next to a mapping: a phase is completed when it has
\* tasks and all of them are completed
ReportProject(mapping) ==
    LET done(p) == Len(mapping[p]) > 0 /\ \A k \in 1..Len(mapping[p]) : mapping[p][k].completed
        phases == [p \in PhaseNames |->
                      [completed |-> done(p),
                       completedDate |-> IF done(p) THEN 1 ELSE null]]
    IN [Project(1, Str(<<"A">>), 1) EXCEPT
           !.phases = phases,
           !.overallStatus = IF \A p \in PhaseNames : phases[p].completed
                             THEN "Completed" ELSE "In Progress"]

InitReport ==
    /\ deploy = "express"
    /\ \E mapping \in ReportMappings :
          /\ projectsFile = <<ReportProject(mapping)>>
          /\ tasksFile = [q \in {1} |-> mapping]
    /\ projects = <<>>
    /\ tasks = <<>>
    /\ nextId = 1 + MaxPhaseTasks * Len(PhaseOrder)
    /\ now = 1
    /\ last = [op |-> "none", status |-> 0, error |-> ""]
    /\ page = NewChecklist
    /\ network = NoTraffic

NextReport == \E id \in {1, nextId + 1} : ExpressGetReport(id, now)

SpecReport == InitReport /\ [][NextReport]_vars

----------------------------------------------------------------------------
(* utils/storage.js called on its own: projects and task mappings saved    *)
(* under the ids 1..MaxProjects, in any order, any write failing. Here a   *)
(* project's name is the value handed to the constructor, undefined when   *)
(* there was none.                                                         *)

\* the projects handed to saveProject under an id: a new one with a name, and
\* one constructed without a name whose planning phase has been completed
StoreProjectInputs(id) ==
    <<Project(id, Str(<<"A">>), 1),
      updatePhaseStatus(Project(id, Undefined, 1), "planning", TRUE, 2)>>

\* the task mappings handed to saveTasksForProject under an id: the default
\* tasks, and two phases of which one holds a completed task with notes and
\* an evidence reference
StoreTaskInputs(id) ==
    <<getDefaultTasks(id),
      [planning |-> <<[Task(id + 1, "planning", "Task 1", "") EXCEPT
                          !.completed = TRUE, !.completedDate = 2,
                          !.notes = Str(<<"n">>),
                          !.evidenceFiles = << <<id, id + 1, "a.pdf">> >>]>>,
       design |-> <<>>]>>

InitStore ==
    /\ deploy = "express"
    /\ projectsFile = <<>>
    /\ tasksFile = <<>>
    /\ projects = <<>>
    /\ tasks = <<>>
    /\ nextId = 0
    /\ now = 0
    /\ last = [op |-> "none", status |-> 0, error |-> ""]
    /\ page = NewChecklist
    /\ network = NoTraffic

\* Storage.saveProject(project), returning ok
StorageSaveProject ==
    \E id \in 1..MaxProjects, ok \in BOOLEAN : \E k \in DOMAIN StoreProjectInputs(id) :
       LET project == StoreProjectInputs(id)[k] IN
       /\ projectsFile' = writeProjects(projectsFile, saveProject(projectsFile, project), ok)
       /\ last' = [op |-> "saveProject", project |-> project, ok |-> ok,
                   status |-> 0, error |-> ""]
       /\ UNCHANGED <<deploy, tasksFile, projects, tasks, nextId, now, page,
                      network>>

\* Storage.saveTasksForProject(projectId, tasks), returning ok
StorageSaveTasks ==
    \E id \in 1..MaxProjects, ok \in BOOLEAN : \E k \in DOMAIN StoreTaskInputs(id) :
       LET mapping == StoreTaskInputs(id)[k] IN
       /\ tasksFile' = writeTasks(tasksFile, saveTasksForProject(tasksFile, id, mapping), ok)
       /\ last' = [op |-> "saveTasks", projectId |-> id, mapping |-> mapping, ok |-> ok,
                   status |-> 0, error |-> ""]
       /\ UNCHANGED <<deploy, projectsFile, projects, tasks, nextId, now,
                      page, network>>

NextStore == StorageSaveProject \/ StorageSaveTasks

SpecStore == InitStore /\ [][NextStore]_vars

----------------------------------------------------------------------------
(* Project.updatePhaseStatus called on its own, with any phase name: the    *)
(* project objects are those with consistent phase flags.                  *)

\* names every plain object inherits from Object.prototype
ObjectPrototypeKeys == {"constructor", "toString", "valueOf", "hasOwnProperty", "__proto__"}

\* this.phases[phase]: an own phase record, a value inherited from
\* Object.prototype (a function or the prototype itself: truthy), or undefined
PhaseLookup(phases, phase) ==
    IF phase \in DOMAIN phases THEN "own"
    ELSE IF phase \in ObjectPrototypeKeys THEN "inherited"
    ELSE "undefined"

\* project.updatePhaseStatus(phase, completed): whether it threw, and the
\* project afterwards. On an inherited name the guard passes, the two
\* assignments land on the inherited value and overallStatus is recomputed
\* from the own phases.
InvokeUpdatePhaseStatus(project, phase, completed, t) ==
    LET found == PhaseLookup(project.phases, phase)
    IN IF found = "undefined"
       THEN [threw |-> TRUE, error |-> <<"Invalid phase: ", phase>>, project |-> project]
       ELSE IF found = "own"
       THEN [threw |-> FALSE, error |-> <<>>,
             project |-> IF deploy = "express"
                         THEN updatePhaseStatus(project, phase, completed, t)
                         ELSE updatePhaseStatusFn(project, phase, completed, t)]
       ELSE [threw |-> FALSE, error |-> <<>>,
             project |-> [project EXCEPT !.overallStatus =
                             IF \A p \in DOMAIN project.phases : project.phases[p].completed
                             THEN "Completed" ELSE "In Progress"]]

\* a project whose completed phases are those of done
ProjectWithPhases(done) ==
    [Project(1, Str(<<"A">>), 1) EXCEPT
        !.phases = [p \in PhaseNames |->
                       [completed |-> p \in done,
                        completedDate |-> IF p \in done THEN 1 ELSE null]],
        !.overallStatus = IF done = PhaseNames THEN "Completed" ELSE "In Progress"]

PhaseInputs == PhaseNames \cup ObjectPrototypeKeys \cup {"", "Planning", "review"}

InitPhase ==
    /\ deploy \in {"express", "netlify"}
    /\ \E done \in SUBSET PhaseNames :
          /\ projectsFile = IF deploy = "express" THEN <<ProjectWithPhases(done)>> ELSE <<>>
          /\ projects = IF deploy = "netlify" THEN <<ProjectWithPhases(done)>> ELSE <<>>
    /\ tasksFile = <<>>
    /\ tasks = <<>>
    /\ nextId = 1
    /\ now = 1
    /\ last = [op |-> "none", status |-> 0, error |-> ""]
    /\ page = NewChecklist
    /\ network = NoTraffic

\* one call of the method on the project object
CallUpdatePhaseStatus ==
    \E phase \in PhaseInputs, completed \in BOOLEAN :
       \E r \in {InvokeUpdatePhaseStatus(Stored[1], phase, completed, now)} :
          /\ projectsFile' = IF deploy = "express" THEN <<r.project>> ELSE projectsFile
          /\ projects' = IF deploy = "netlify" THEN <<r.project>> ELSE projects
          /\ last' = [op |-> "updatePhaseStatus", phase |-> phase, completed |-> completed,
                      before |-> Stored[1], threw |-> r.threw, error |-> r.error,
                      status |-> 0]
          /\ UNCHANGED <<deploy, tasksFile, tasks, nextId, now, page, network>>

NextPhase == CallUpdatePhaseStatus

SpecPhase == InitPhase /\ [][NextPhase]_vars

----------------------------------------------------------------------------
(* The notes of a completed task in the report: one project, its first     *)
(* task completed with notes of every length up to MaxNotes.               *)

\* notes of n characters: the first is c1, the others are c2
MakeNotes(n, c1, c2) == [i \in 1..n |-> IF i = 1 THEN c1 ELSE c2]

NotesInputs == {MakeNotes(n, c1, c2) : n \in 0..MaxNotes, c1 \in {"x", " "}, c2 \in {"x", " "}}

CreateNotedProject ==
    /\ Len(Stored) = 0
    /\ \/ ExpressCreateProject(Str(<<"A">>), 1, TRUE, TRUE)
       \/ NetlifyCreateProject(Str(<<"A">>), 1)

\* the first task of the project is completed with the notes given
CompleteWithNotes ==
    \E projectId \in StoredIds, notes \in NotesInputs :
       \E taskId \in {StoredTasks[projectId][PhaseOrder[1]][1].id} :
          \/ ExpressUpdateTask(projectId, taskId, Bool(TRUE), Str(notes), 1, 1, TRUE, TRUE)
          \/ NetlifyUpdateTask(projectId, taskId, Bool(TRUE), Str(notes), 1, 1)

NextNotes == CreateNotedProject \/ CompleteWithNotes \/ ReportOnlyProject

SpecNotes == Init /\ [][NextNotes]_vars

----------------------------------------------------------------------------
(* Task updates next to what they must leave alone: the first project is   *)
(* worked on in three of its phases while up to MaxProjects projects are   *)
(* stored, all within one clock tick.                                      *)

FramePhases == {"planning", "design", "implementation"}

\* completion toggles on the tasks of the three phases, a notes change on
\* the first task
FrameRequests ==
    IF Len(Stored) = 0 THEN {}
    ELSE LET q == Stored[1].id
         IN {<<tid, [completed |-> Bool(b), notes |-> Undefined]>> :
                tid \in TaskIdsIn(q, FramePhases), b \in BOOLEAN}
            \cup {<<StoredTasks[q][PhaseOrder[1]][1].id,
                    [completed |-> Undefined, notes |-> Str(<<"n">>)]>>}

CreateFrameProject ==
    /\ Len(Stored) < MaxProjects
    /\ \/ ExpressCreateProject(Str(<<"A">>), 1, TRUE, TRUE)
       \/ NetlifyCreateProject(Str(<<"A">>), 1)

UpdateFrameTask ==
    \E r \in FrameRequests :
       \/ ExpressUpdateTask(Stored[1].id, r[1], r[2].completed, r[2].notes, 1, 1, TRUE, TRUE)
       \/ NetlifyUpdateTask(Stored[1].id, r[1], r[2].completed, r[2].notes, 1, 1)

NextFrame == CreateFrameProject \/ UpdateFrameTask

SpecFrame == Init /\ [][NextFrame]_vars

----------------------------------------------------------------------------
(* Task updates of the Express server whose writes may fail: each of the   *)
(* two writes of the PUT route succeeds or fails on its own.               *)

CreateFailProject ==
    /\ Len(Stored) = 0
    /\ ExpressCreateProject(Str(<<"A">>), 1, TRUE, TRUE)

UpdateFailTask ==
    \E r \in FrameRequests, tasksSaved \in BOOLEAN, projectSaved \in BOOLEAN :
       ExpressUpdateTask(Stored[1].id, r[1], r[2].completed, r[2].notes, 1, 1,
                         tasksSaved, projectSaved)

NextFail == CreateFailProject \/ UpdateFailTask

SpecFail == InitStore /\ [][NextFail]_vars

----------------------------------------------------------------------------
(* Task updates on a project some of whose phases have no tasks: the files *)
(* hold one new project and its default tasks with the lists of all but at *)
(* most MaxFilled phases emptied.                                          *)

MaxFilled == 1

\* the default tasks with the lists of the given phases emptied
EmptiedTasks(base, empty) ==
    [p \in PhaseNames |-> IF p \in empty THEN <<>> ELSE getDefaultTasks(base)[p]]

InitEmpty ==
    /\ deploy = "express"
    /\ projectsFile = <<Project(1, Str(<<"A">>), 1)>>
    /\ \E empty \in {e \in SUBSET PhaseNames :
                        Cardinality(PhaseNames \ e) <= MaxFilled /\ e # {}} :
          tasksFile = [q \in {1} |-> EmptiedTasks(1, empty)]
    /\ projects = <<>>
    /\ tasks = <<>>
    /\ nextId = IdsPerProject
    /\ now = 1
    /\ last = [op |-> "none", status |-> 0, error |-> ""]
    /\ page = NewChecklist
    /\ network = NoTraffic

\* completion toggles on every task of the catalog, stored or not, and a
\* notes change on the first task of every phase
UpdateEmptyTask ==
    \E pos \in UNION {{<<p, k>> : k \in 1..Len(getDefaultTasks(1)[p])} : p \in PhaseNames} :
       \E body \in {[completed |-> Bool(TRUE), notes |-> Undefined],
                    [completed |-> Bool(FALSE), notes |-> Undefined]}
                   \cup {b \in {[completed |-> Undefined, notes |-> Str(<<"n">>)]} :
                            pos[2] = 1} :
          ExpressUpdateTask(1, getDefaultTasks(1)[pos[1]][pos[2]].id,
                            body.completed, body.notes, now, now, TRUE, TRUE)

NextEmpty == UpdateEmptyTask

SpecEmpty == InitEmpty /\ [][NextEmpty]_vars

----------------------------------------------------------------------------
(* netlify/functions/reports.js: the reports function of the serverless    *)
(* deployment next to the projects function.                               *)

\* let projects = [] of reports.js: the module never assigns to it or to
\* its elements
reportsProjects == <<>>

\* let tasks = {} of reports.js: never assigned to either
reportsTasks == <<>>

\* GET /reports/:id of the reports function: the statistics the PDF is
\* written from
NetlifyGetReport(projectId, t) ==
    /\ deploy = "netlify"
    /\ now' = t
    /\ UNCHANGED <<deploy, projectsFile, tasksFile, projects, tasks, nextId,
                   page, network>>
    /\ IF FindIndex(reportsProjects, projectId) = 0
       THEN last' = [op |-> "report", projectId |-> projectId, time |-> t,
                     status |-> 404, error |-> "Project not found"]
       ELSE LET projectTasks == IF projectId \in DOMAIN reportsTasks
                                THEN reportsTasks[projectId] ELSE <<>>
            IN last' = [op |-> "report", projectId |-> projectId, time |-> t,
                        status |-> 200, error |-> ""]
                       @@ ReportStats(projectTasks)

InitServerless ==
    /\ deploy = "netlify"
    /\ projectsFile = <<>>
    /\ tasksFile = <<>>
    /\ projects = <<>>
    /\ tasks = <<>>
    /\ nextId = 0
    /\ now = 0
    /\ last = [op |-> "none", status |-> 0, error |-> ""]
    /\ page = NewChecklist
    /\ network = NoTraffic

CreateServerlessProject ==
    /\ Len(projects) < MaxProjects
    /\ NetlifyCreateProject(Str(<<"A">>), 1)

UpdateServerlessTask ==
    \E r \in FrameRequests :
       NetlifyUpdateTask(projects[1].id, r[1], r[2].completed, r[2].notes, 1, 1)

\* a report is asked for every stored project and for an unknown id
ReportServerless ==
    \E id \in {projects[i].id : i \in 1..Len(projects)} \cup {nextId + 1} :
       NetlifyGetReport(id, 1)

NextServerless == CreateServerlessProject \/ UpdateServerlessTask \/ ReportServerless

SpecServerless == InitServerless /\ [][NextServerless]_vars

----------------------------------------------------------------------------
(* The two deployments side by side: every request is handed to the        *)
(* Express routes, working on the files, and to the serverless projects    *)
(* function, working on its module state; all writes succeed, both draw    *)
(* the same ids and read the same clock.                                   *)

InitBoth ==
    /\ deploy = "both"
    /\ projectsFile = <<>>
    /\ tasksFile = <<>>
    /\ projects = <<>>
    /\ tasks = <<>>
    /\ nextId = 0
    /\ now = 0
    /\ last = [op |-> "none", status |-> 0, error |-> ""]
    /\ page = NewChecklist
    /\ network = NoTraffic

\* well-typed bodies on the planning tasks of the first project, a completion
\* under blank and unknown ids
BothRequests ==
    IF Len(projectsFile) = 0 THEN {<<nextId + 1, nextId + 1,
                                     [completed |-> Bool(TRUE), notes |-> Undefined]>>}
    ELSE LET q == projectsFile[1].id
             planned == getTasksForProject(tasksFile, q)[PhaseOrder[1]]
             taskIds == {planned[k].id : k \in 1..Len(planned)}
         IN {<<q, tid, [completed |-> c, notes |-> n]>> :
                tid \in taskIds,
                c \in {Undefined, Bool(TRUE), Bool(FALSE)},
                n \in {Undefined, Str(<<>>), Str(<<"n">>)}}
            \cup {<<ids[1], ids[2], [completed |-> Bool(TRUE), notes |-> Undefined]>> :
                     ids \in {<<BlankId, planned[1].id>>, <<q, BlankId>>,
                              <<nextId + 1, planned[1].id>>, <<q, nextId + 1>>}}

CreateBoth ==
    /\ Len(projectsFile) < MaxProjects
    /\ \E name \in NameInputs :
       \E e \in {ExpressCreate(projectsFile, tasksFile, nextId, name, 1, TRUE, TRUE)} :
       \E n \in {NetlifyCreate(projects, tasks, nextId, name, 1)} :
          /\ projectsFile' = e.projectsFile
          /\ tasksFile' = e.tasksFile
          /\ projects' = n.projects
          /\ tasks' = n.tasks
          /\ nextId' = nextId + e.ids
          /\ now' = 1
          /\ last' = [op |-> "create", name |-> name, time |-> 1,
                      status |-> e.response.status, error |-> e.response.error,
                      netlify |-> [status |-> n.response.status,
                                   error |-> n.response.error]]
          /\ UNCHANGED <<deploy, page, network>>

UpdateBoth ==
    \E r \in BothRequests :
    \E e \in {ExpressUpdate(projectsFile, tasksFile, r[1], r[2],
                            r[3].completed, r[3].notes, 1, 1, TRUE, TRUE)} :
    \E n \in {NetlifyUpdate(projects, tasks, r[1], r[2],
                            r[3].completed, r[3].notes, 1, 1)} :
       /\ projectsFile' = e.projectsFile
       /\ tasksFile' = e.tasksFile
       /\ projects' = n.projects
       /\ tasks' = n.tasks
       /\ now' = 1
       /\ last' = [op |-> "update", projectId |-> r[1], taskId |-> r[2],
                   completed |-> r[3].completed, notes |-> r[3].notes, time |-> 1,
                   status |-> e.response.status, error |-> e.response.error,
                   netlify |-> [status |-> n.response.status,
                                error |-> n.response.error]]
       /\ UNCHANGED <<deploy, nextId, page, network>>

NextBoth == CreateBoth \/ UpdateBoth

SpecBoth == InitBoth /\ [][NextBoth]_vars

----------------------------------------------------------------------------
(* The checklist page over the serverless projects function: one project,  *)
(* the page showing its first planning task; the user toggles the checkbox *)
(* and types notes, MaxEvents times in all; the debounce timer fires at    *)
(* any time after the last keystroke; requests are served and responses    *)
(* received in any order.                                                  *)

MaxEvents == 3

\* what the user types into the notes field
NoteTexts == {<<"n">>, <<"n", "m">>}

CreateShownProject ==
    /\ Len(projects) = 0
    /\ NetlifyCreateProject(Str(<<"A">>), 1)

\* init and loadProject: GET /projects/:id, then the tasks of the planning
\* phase are rendered
OpenChecklist ==
    /\ deploy = "netlify"
    /\ page.projectId = null
    /\ Len(projects) > 0
    /\ LET id == projects[1].id
           projectTasks == IF id \in DOMAIN tasks THEN tasks[id] ELSE <<>>
           shown == projectTasks[PhaseOrder[1]][1]
       IN page' = [projectId |-> id,
                   project |-> projects[1],
                   tasks |-> projectTasks,
                   taskId |-> shown.id,
                   checked |-> shown.completed,
                   value |-> OrEmpty(shown.notes),
                   updateTimeout |-> Undefined,
                   events |-> 0,
                   sent |-> 0]
    /\ UNCHANGED <<deploy, projectsFile, tasksFile, projects, tasks, nextId, now, last,
                   network>>

\* fetch(..., {method: 'PUT', body}) of the function named
SendPut(from, body) ==
    network' = [network EXCEPT !.requests =
                   @ \cup {[seq |-> page.sent + 1, from |-> from,
                            taskId |-> page.taskId, body |-> body]}]

\* the change event of the checkbox: updateTaskStatus(taskId, e.target.checked)
ChangeCheckbox ==
    /\ page.projectId # null
    /\ page.events < MaxEvents
    /\ SendPut("updateTaskStatus", StatusBody(page.tasks, page.taskId, ~ page.checked))
    /\ page' = [page EXCEPT !.checked = ~ @, !.events = @ + 1, !.sent = @ + 1]
    /\ UNCHANGED <<deploy, projectsFile, tasksFile, projects, tasks, nextId, now, last>>

\* the input event of the notes field: the pending timer is cleared and a
\* new one is set with the notes typed
InputNotes ==
    /\ page.projectId # null
    /\ page.events < MaxEvents
    /\ \E text \in NoteTexts :
          page' = [page EXCEPT !.value = Str(text), !.updateTimeout = Str(text),
                               !.events = @ + 1]
    /\ UNCHANGED <<deploy, projectsFile, tasksFile, projects, tasks, nextId, now, last,
                   network>>

\* the debounce timer fires: updateTaskNotes(taskId, notes)
TimeoutFires ==
    /\ page.projectId # null
    /\ page.updateTimeout # Undefined
    /\ SendPut("updateTaskNotes", NotesBody(page.tasks, page.taskId, page.updateTimeout))
    /\ page' = [page EXCEPT !.updateTimeout = Undefined, !.sent = @ + 1]
    /\ UNCHANGED <<deploy, projectsFile, tasksFile, projects, tasks, nextId, now, last>>

\* the projects function serves one of the requests on their way
ServePut ==
    /\ deploy = "netlify"
    /\ \E req \in network.requests :
       \E out \in {NetlifyUpdate(projects, tasks, page.projectId, req.taskId,
                                 req.body.completed, req.body.notes, 1, 1)} :
          /\ projects' = out.projects
          /\ tasks' = out.tasks
          /\ now' = 1
          /\ last' = [op |-> "update", projectId |-> page.projectId,
                      taskId |-> req.taskId, completed |-> req.body.completed,
                      notes |-> req.body.notes, time |-> 1, from |-> req.from]
                     @@ out.response
          /\ network' =
                [requests |-> network.requests \ {req},
                 responses |-> network.responses \cup
                    {[seq |-> req.seq, from |-> req.from,
                      completed |-> req.body.completed.v,
                      status |-> out.response.status,
                      body |-> IF out.response.status = 200
                               THEN LET project == out.projects[FindIndex(out.projects,
                                                                          page.projectId)]
                                        mapping == out.tasks[page.projectId]
                                        phase == PhaseOfTask(mapping, req.taskId)
                                    IN [task |-> mapping[phase][FindIndex(mapping[phase],
                                                                          req.taskId)],
                                        project |-> [phases |-> project.phases,
                                                     overallStatus |->
                                                         project.overallStatus]]
                               ELSE [error |-> out.response.error]]}]
    /\ UNCHANGED <<deploy, projectsFile, tasksFile, nextId, page>>

\* a response arrives at the function that awaits it
ReceiveResponse ==
    /\ \E res \in network.responses :
          /\ network' = [network EXCEPT !.responses = @ \ {res}]
          /\ page' =
                IF res.status = 200
                THEN [page EXCEPT
                         !.tasks = updateLocalTaskData(@, res.body.task),
                         !.project = IF res.from = "updateTaskStatus"
                                     THEN [@ EXCEPT
                                              !.phases = res.body.project.phases,
                                              !.overallStatus =
                                                  res.body.project.overallStatus]
                                     ELSE @]
                ELSE IF res.from = "updateTaskStatus"
                     THEN [page EXCEPT !.checked = ~ res.completed]
                     ELSE page
    /\ UNCHANGED <<deploy, projectsFile, tasksFile, projects, tasks, nextId, now, last>>

NextChecklist ==
    \/ CreateShownProject
    \/ OpenChecklist
    \/ ChangeCheckbox
    \/ InputNotes
    \/ TimeoutFires
    \/ ServePut
    \/ ReceiveResponse

SpecChecklist == InitServerless /\ [][NextChecklist]_vars

----------------------------------------------------------------------------
(* The dates of one phase: the planning tasks of one project are updated   *)
(* while the clock runs up to MaxStamp; a request reads the clock at the   *)
(* tick of the request before it or later, and the phase recomputation     *)
(* reads it again, at the same tick or the next.                           *)

MaxStamp == 5

\* every well-typed body on the planning tasks of the project
StampRequests ==
    {<<tid, [completed |-> c, notes |-> n]>> :
        tid \in UNION {TaskIdsIn(q, {PhaseOrder[1]}) : q \in StoredIds},
        c \in {Undefined, Bool(TRUE), Bool(FALSE)},
        n \in {Undefined, Str(<<"n">>)}}

CreateStampedProject ==
    /\ Len(Stored) = 0
    /\ \/ ExpressCreateProject(Str(<<"A">>), 1, TRUE, TRUE)
       \/ NetlifyCreateProject(Str(<<"A">>), 1)

UpdateStampedTask ==
    \E r \in StampRequests :
    \E t1 \in {t \in {now, now + 1} : t <= MaxStamp} :
    \E t2 \in {t \in {t1, t1 + 1} : t <= MaxStamp} :
       \/ ExpressUpdateTask(Stored[1].id, r[1], r[2].completed, r[2].notes,
                            t1, t2, TRUE, TRUE)
       \/ NetlifyUpdateTask(Stored[1].id, r[1], r[2].completed, r[2].notes, t1, t2)

NextStamp == CreateStampedProject \/ UpdateStampedTask

SpecStamp == Init /\ [][NextStamp]_vars

----------------------------------------------------------------------------
(* Vocabulary of the properties *)

\* the task mapping stored for a project, empty when there is none
TasksOf(projectId) ==
    IF projectId \in DOMAIN StoredTasks THEN StoredTasks[projectId] ELSE <<>>

\* the stored project with the given id
ProjectOf(projectId) == Stored[FindIndex(Stored, projectId)]

\* every task of the phase is completed
AllCompleted(mapping, phase) ==
    \A k \in 1..Len(mapping[phase]) : mapping[phase][k].completed

\* the positions (phase, index) of the tasks of a mapping
Positions(mapping) ==
    UNION {{<<ph, k>> : k \in 1..Len(mapping[ph])} : ph \in DOMAIN mapping}

\* the number of completed tasks of a phase / of a whole mapping
CompletedIn(mapping, ph) ==
    Cardinality({k \in 1..Len(mapping[ph]) : mapping[ph][k].completed})

CompletedCount(mapping) ==
    Cardinality({pos \in Positions(mapping) : mapping[pos[1]][pos[2]].completed})

\* the task a successful request addressed
LastTask == LET m == TasksOf(last.projectId)
                ph == PhaseOfTask(m, last.taskId)
            IN m[ph][FindIndex(m[ph], last.taskId)]

LastOk(op) == last.op = op /\ last.status \in {200, 201}

----------------------------------------------------------------------------
\* C1: in every reachable state each stored project's overallStatus is
\* "Completed" if and only if all five of its phases are completed, and is
\* "In Progress" otherwise.
C1_OverallFollowsPhases ==
    \A i \in 1..Len(Stored) :
        LET allDone == \A ph \in PhaseNames : Stored[i].phases[ph].completed
        IN /\ DOMAIN Stored[i].phases = PhaseNames
           /\ Stored[i].overallStatus = "Completed" <=> allDone
           /\ ~ allDone => Stored[i].overallStatus = "In Progress"

\* a project was driven to Completed by a task update
C1_Witness ==
    /\ LastOk("update")
    /\ \E i \in 1..Len(Stored) :
          /\ Stored[i].overallStatus = "Completed"
          /\ \A ph \in PhaseNames : Stored[i].phases[ph].completed

C3_NewProjectFresh ==
    last.op = "create" /\ last.status = 201 =>
        /\ Len(Stored) > 0
        /\ Stored[Len(Stored)] = last.project
        /\ last.project.overallStatus = "In Progress"
        /\ DOMAIN last.project.phases =
              {"planning", "design", "implementation", "testing", "deployment"}
        /\ \A ph \in DOMAIN last.project.phases :
              /\ last.project.phases[ph].completed = FALSE
              /\ last.project.phases[ph].completedDate = null

\* a second project has just been created
C3_Witness ==
    /\ last.op = "create" /\ last.status = 201
    /\ Len(Stored) = 2
    /\ Stored[2].id = last.project.id

C5_PhaseDateIffCompleted ==
    \A i \in 1..Len(Stored) : \A ph \in DOMAIN Stored[i].phases :
        Stored[i].phases[ph].completedDate # null <=> Stored[i].phases[ph].completed

\* an un-completion left the phase of a task whose sibling is completed
\* without flag and date, next to a completed phase that carries its date
C5_Witness ==
    /\ LastOk("update")
    /\ last.completed = Bool(FALSE)
    /\ LET project == ProjectOf(last.projectId)
           ph == LastTask.phase
       IN /\ CompletedIn(TasksOf(last.projectId), ph) = 1
          /\ project.phases[ph] = [completed |-> FALSE, completedDate |-> null]
          /\ \E other \in PhaseNames :
                project.phases[other].completed /\ project.phases[other].completedDate = now

\* C6: a successful update carrying completed = b leaves the task with
\* completed = b and with completedDate = the clock reading of the request
\* when b is true, absent when b is false; and every stored task has a
\* completedDate exactly when it is completed.
C6_TaskCompletionStamp ==
    /\ (LastOk("update") /\ last.completed.t = "boolean") =>
          /\ LastTask.completed = last.completed.v
          /\ LastTask.completedDate = IF last.completed.v THEN last.time ELSE null
    /\ \A id \in StoredIds : \A pos \in Positions(TasksOf(id)) :
          LET task == TasksOf(id)[pos[1]][pos[2]]
          IN task.completedDate # null <=> task.completed

\* a completion stamped later than the creation of the project
C6_Witness ==
    /\ LastOk("update")
    /\ last.completed = Bool(TRUE)
    /\ LastTask.completed
    /\ LastTask.completedDate = last.time
    /\ last.time > ProjectOf(last.projectId).createdDate + 1

\* the evidence lists of all stored tasks, by project id and position
EvidenceOf(projectId, pos) == TasksOf(projectId)[pos[1]][pos[2]].evidenceFiles

NoDuplicates(seq) == \A i, j \in 1..Len(seq) : seq[i] = seq[j] => i = j

\* the references of seq that are not in old, each at its first occurrence
RECURSIVE FirstSeen(_, _)
FirstSeen(old, seq) ==
    IF seq = <<>> THEN <<>>
    ELSE LET front == SubSeq(seq, 1, Len(seq) - 1)
             x == seq[Len(seq)]
             rest == FirstSeen(old, front)
         IN IF (\E i \in 1..Len(old) : old[i] = x) \/ (\E i \in 1..Len(front) : front[i] = x)
            THEN rest
            ELSE Append(rest, x)

\* the task mapping a store holds for a project, empty when there is none
MappingIn(store, projectId) ==
    IF projectId \in DOMAIN store THEN store[projectId] ELSE <<>>

\* Task.addEvidence applied to the references of seq, one after the other
RECURSIVE AddAll(_, _)
AddAll(task, seq) ==
    IF seq = <<>> THEN task
    ELSE addEvidence(AddAll(task, SubSeq(seq, 1, Len(seq) - 1)), seq[Len(seq)])

\* C7: no stored task ever lists an evidence reference twice, and a
\* successful evidence request extends the list of the addressed task by
\* exactly the references it did not hold yet, in the order in which the
\* request first names them, which is what Task.addEvidence makes of them
\* one by one; a reference added a second time changes nothing.
C7_EvidenceSetSemantics ==
    [][/\ \A id \in StoredIds' : \A pos \in Positions(TasksOf(id)') :
             NoDuplicates(EvidenceOf(id, pos)')
       /\ (last'.op = "evidence" /\ last'.status = 200) =>
             LET before == MappingIn(StoredTasks, last'.projectId)
                 after == MappingIn(StoredTasks', last'.projectId)
                 refs == [k \in 1..Len(last'.files) |->
                             <<last'.projectId, last'.taskId, last'.files[k]>>]
             IN /\ Positions(after) = Positions(before)
                /\ \E pos \in Positions(before) : before[pos[1]][pos[2]].id = last'.taskId
                /\ \A pos \in Positions(before) :
                      LET old == before[pos[1]][pos[2]].evidenceFiles
                          new == after[pos[1]][pos[2]].evidenceFiles
                      IN IF before[pos[1]][pos[2]].id = last'.taskId
                         THEN /\ new = old \o FirstSeen(old, refs)
                              /\ after[pos[1]][pos[2]] = AddAll(before[pos[1]][pos[2]], refs)
                              /\ \A k \in 1..Len(refs) :
                                    /\ addEvidence(after[pos[1]][pos[2]], refs[k])
                                          = after[pos[1]][pos[2]]
                                    /\ AddAll(before[pos[1]][pos[2]], <<refs[k], refs[k]>>)
                                          = addEvidence(before[pos[1]][pos[2]], refs[k])
                         ELSE new = old
      ]_vars

\* a request naming the same file twice, on a task that already held
\* another reference, left each reference once
C7_Witness ==
    /\ LastOk("evidence")
    /\ last.files = <<"a.pdf", "a.pdf">>
    /\ LastTask.evidenceFiles = << <<last.projectId, last.taskId, "b.png">>,
                                   <<last.projectId, last.taskId, "a.pdf">> >>

\* the titles of the catalog, phase by phase
CatalogTitles ==
    [planning |-> <<"Threat Modeling", "Security Requirements Gathering">>,
     design |-> <<"Security Architecture Review", "Data Flow Analysis">>,
     implementation |-> <<"Secure Coding Review", "Dependency Scanning">>,
     testing |-> <<"Security Testing", "Penetration Testing">>,
     deployment |-> <<"Security Configuration Review", "Access Control Setup">>]

\* id, phase and title of the tasks of a mapping, position by position
Skeleton(mapping) ==
    [ph \in DOMAIN mapping |->
        [k \in 1..Len(mapping[ph]) |->
            <<mapping[ph][k].id, mapping[ph][k].phase, mapping[ph][k].title>>]]

TaskIdsOf(projectId) ==
    {TasksOf(projectId)[pos[1]][pos[2]].id : pos \in Positions(TasksOf(projectId))}

\* C9: the task ids of different projects are disjoint (and the ten of one
\* project differ), and a task update or evidence request under project id
\* A leaves the tasks, the phases and the overallStatus of every other
\* stored project as they were.
C9_ProjectsIndependent ==
    [][/\ \A a, b \in StoredIds' :
             a # b => TaskIdsOf(a)' \cap TaskIdsOf(b)' = {}
       /\ \A a \in StoredIds' : Cardinality(TaskIdsOf(a)') = 10
       /\ last'.op \in {"update", "evidence"} =>
             \A b \in StoredIds \ {last'.projectId} :
                /\ TasksOf(b)' = TasksOf(b)
                /\ ProjectOf(b)' = ProjectOf(b)
      ]_vars

\* a task of the second project was completed while the first project is
\* stored and untouched
C9_Witness ==
    /\ Len(Stored) = 2
    /\ LastOk("update")
    /\ last.projectId = Stored[2].id
    /\ LastTask.completed
    /\ TasksOf(Stored[1].id) = getDefaultTasks(Stored[1].id)

\* C10: the report's overallScore is the integer nearest to
\* completed / total * 100 over the tasks of all phases, a half rounded up,
\* and 0 when the project has no tasks; 5 completed of 10 give 50.
C10_OverallScore ==
    (last.op = "report" /\ last.status = 200) =>
        LET mapping == TasksOf(last.projectId)
            total == Cardinality(Positions(mapping))
            done == CompletedCount(mapping)
            score == last.overallSecurityScore
        IN /\ score \in 0..100
           /\ total = 0 => score = 0
           /\ total > 0 => /\ 2 * total * score <= 200 * done + total
                           /\ 200 * done + total < 2 * total * (score + 1)
           /\ (total = 10 /\ done = 5) => score = 50

\* a report over eight tasks, five of them completed: 62.5 shown as 63
C10_Witness ==
    /\ last.op = "report" /\ last.status = 200
    /\ Cardinality(Positions(TasksOf(last.projectId))) = 8
    /\ CompletedCount(TasksOf(last.projectId)) = 5
    /\ last.overallSecurityScore = 63

\* a report over a project without tasks
C10_WitnessEmpty ==
    /\ last.op = "report" /\ last.status = 200
    /\ Positions(TasksOf(last.projectId)) = {}
    /\ last.overallSecurityScore = 0

\* C11: for each phase the report states as total the number of tasks of the
\* phase, as completed the number of those that are completed, and as
\* percentage the integer nearest to completed / total * 100, a half rounded
\* up, and 0 for a phase without tasks; so 0 <= completed <= total and
\* 0 <= percentage <= 100. The browser's calculateProjectStats computes the
\* same numbers.
C11_PhaseStatistics ==
    (last.op = "report" /\ last.status = 200) =>
        LET mapping == TasksOf(last.projectId)
            client == calculateProjectStats(mapping)
        IN /\ Len(last.phaseStats) = Cardinality(DOMAIN mapping)
           /\ {last.phaseStats[i].phase : i \in 1..Len(last.phaseStats)} = DOMAIN mapping
           /\ \A i \in 1..Len(last.phaseStats) :
                 LET stats == last.phaseStats[i]
                     total == Len(mapping[stats.phase])
                     done == CompletedIn(mapping, stats.phase)
                 IN /\ stats.total = total
                    /\ stats.completed = done
                    /\ 0 <= stats.completed /\ stats.completed <= stats.total
                    /\ stats.percentage \in 0..100
                    /\ total = 0 => stats.percentage = 0
                    /\ total > 0 =>
                          /\ 2 * total * stats.percentage <= 200 * done + total
                          /\ 200 * done + total < 2 * total * (stats.percentage + 1)
           /\ client.phaseStats = last.phaseStats
           /\ client.totalTasks = last.totalTasks
           /\ client.completedTasks = last.completedTasks

\* a report with an empty phase, a phase at 50% and a phase at 100%
C11_Witness ==
    /\ last.op = "report" /\ last.status = 200
    /\ \E i, j, k \in 1..Len(last.phaseStats) :
          /\ last.phaseStats[i].total = 0 /\ last.phaseStats[i].percentage = 0
          /\ last.phaseStats[j].total = 2 /\ last.phaseStats[j].percentage = 50
          /\ last.phaseStats[k].total = 1 /\ last.phaseStats[k].percentage = 100

ReportPhaseOrder == <<"planning", "design", "implementation", "testing", "deployment">>

\* the position (phase, index) of the task with the given id
PositionOf(mapping, id) ==
    CHOOSE pos \in Positions(mapping) : mapping[pos[1]][pos[2]].id = id

\* position a comes before position b: earlier phase, or same phase and
\* earlier in the phase's list
Before(a, b) ==
    LET rank(ph) == CHOOSE i \in 1..Len(ReportPhaseOrder) : ReportPhaseOrder[i] = ph
    IN rank(a[1]) < rank(b[1]) \/ (a[1] = b[1] /\ a[2] < b[2])

\* the entries of a section are the tasks with the given completed flag, each
\* once, tagged with its phase, in phase order and then in list order
SectionLists(section, mapping, flag) ==
    /\ \A pos \in Positions(mapping) :
          Cardinality({i \in 1..Len(section) : section[i].id = mapping[pos[1]][pos[2]].id})
             = (IF mapping[pos[1]][pos[2]].completed = flag THEN 1 ELSE 0)
    /\ \A i \in 1..Len(section) :
          /\ \E pos \in Positions(mapping) : mapping[pos[1]][pos[2]].id = section[i].id
          /\ section[i].phase = PositionOf(mapping, section[i].id)[1]
          /\ section[i].title = mapping[section[i].phase][PositionOf(mapping, section[i].id)[2]].title
    /\ \A i, j \in 1..Len(section) :
          i < j => Before(PositionOf(mapping, section[i].id), PositionOf(mapping, section[j].id))

\* C13: a report lists every task of the project exactly once, a completed
\* task in the completed section and an open one in the outstanding section,
\* and each section runs through the phases planning, design, implementation,
\* testing, deployment and inside a phase through the tasks in their stored
\* order. The browser's calculateProjectStats builds the same two lists.
C13_ReportPartition ==
    (last.op = "report" /\ last.status = 200) =>
        LET mapping == TasksOf(last.projectId)
            client == calculateProjectStats(mapping).taskStats
        IN /\ SectionLists(last.completedSection, mapping, TRUE)
           /\ SectionLists(last.outstandingSection, mapping, FALSE)
           /\ Len(last.completedSection) + Len(last.outstandingSection)
                 = Cardinality(Positions(mapping))
           /\ [i \in 1..Len(client.completed) |->
                  <<client.completed[i].phase, client.completed[i].id>>]
                 = [i \in 1..Len(last.completedSection) |->
                       <<last.completedSection[i].phase, last.completedSection[i].id>>]
           /\ [i \in 1..Len(client.outstanding) |->
                  <<client.outstanding[i].phase, client.outstanding[i].id>>]
                 = [i \in 1..Len(last.outstandingSection) |->
                       <<last.outstandingSection[i].phase, last.outstandingSection[i].id>>]

\* a report with three completed tasks from two phases, among them the second
\* task of a phase whose first task is still open
C13_Witness ==
    /\ last.op = "report" /\ last.status = 200
    /\ Len(last.completedSection) = 3
    /\ Len(last.outstandingSection) = 7
    /\ last.completedSection[1].phase = "design"
    /\ last.completedSection[3].phase = "testing"
    /\ last.completedSection[3].title = "Penetration Testing"
    /\ \E i \in 1..7 : last.outstandingSection[i].title = "Security Testing"

\* the notes are empty or consist of blanks only
Blank(text) == \A i \in 1..Len(text) : text[i] = " "

\* the notes of the task a completed entry of the last report stands for
NotesOf(entry) ==
    LET mapping == TasksOf(last.projectId)
        pos == PositionOf(mapping, entry.id)
    IN mapping[pos[1]][pos[2]].notes.v

\* C14 as stated: in the completed entry of a report, notes of more than 80
\* characters appear as their first 80 characters followed by "...", and
\* notes of at most 80 characters appear unchanged (for empty notes, no line
\* or an empty line).
C14_AllNotesAppear ==
    (last.op = "report" /\ last.status = 200) =>
        \A i \in 1..Len(last.completedSection) :
            LET entry == last.completedSection[i]
                text == NotesOf(entry)
            IN IF Len(text) > 80
               THEN entry.notesLine = Str(SubSeq(text, 1, 80) \o <<".", ".", ".">>)
               ELSE \/ entry.notesLine = Str(text)
                    \/ text = <<>> /\ entry.notesLine = JSNull

\* C14, amended: the completed entry has a notes line only for notes that are
\* not blank; such notes of more than 80 characters appear as their first 80
\* characters followed by "...", such notes of at most 80 characters appear
\* unchanged; blank notes of any length give no notes line.
C14_NotesTruncation ==
    (last.op = "report" /\ last.status = 200) =>
        \A i \in 1..Len(last.completedSection) :
            LET entry == last.completedSection[i]
                text == NotesOf(entry)
            IN IF Blank(text) THEN entry.notesLine = JSNull
               ELSE IF Len(text) > 80
               THEN /\ entry.notesLine = Str(SubSeq(text, 1, 80) \o <<".", ".", ".">>)
                    /\ Len(entry.notesLine.v) = 83
               ELSE entry.notesLine = Str(text)

\* a report on a completed task with 81 characters of notes, shown cut
C14_Witness ==
    /\ last.op = "report" /\ last.status = 200
    /\ \E i \in 1..Len(last.completedSection) :
          /\ Len(NotesOf(last.completedSection[i])) = 81
          /\ ~ Blank(NotesOf(last.completedSection[i]))
          /\ last.completedSection[i].notesLine.t = "string"
          /\ Len(last.completedSection[i].notesLine.v) = 83

\* C15: a creation request whose name is missing, not a string, empty or
\* blank is answered with the validation error (400) and leaves the stored
\* projects and task sets as they were; so the name of every stored project
\* is a string with a character other than a blank.
C15_NameValidated ==
    [][/\ (last'.op = "create" /\ (last'.name.t # "string" \/ Blank(last'.name.v))) =>
             /\ last'.status = 400
             /\ last'.error = "Project name is required and must be a non-empty string"
             /\ Stored' = Stored
             /\ StoredTasks' = StoredTasks
       /\ \A i \in 1..Len(Stored') : ~ Blank(Stored'[i].name.v)
      ]_vars

\* a creation with a blank name was rejected while a project is stored
C15_Witness ==
    /\ last.op = "create"
    /\ last.name = Str(<<" ">>)
    /\ last.status = 400
    /\ Len(Stored) = 1

\* the ids of the tasks a store holds for a project
TaskIdsUnder(store, projectId) ==
    {MappingIn(store, projectId)[pos[1]][pos[2]].id :
        pos \in Positions(MappingIn(store, projectId))}

\* C16 as stated: every task update under a project id that is not stored
\* fails with "Project not found", every task update under a stored project
\* id and a task id that is not among the project's tasks fails with "Task
\* not found", and both leave the stored projects and tasks unchanged.
C16_AlwaysNotFound ==
    [][last'.op = "update" =>
          /\ last'.projectId \notin StoredIds =>
                /\ last'.status = 404 /\ last'.error = "Project not found"
                /\ Stored' = Stored /\ StoredTasks' = StoredTasks
          /\ (/\ last'.projectId \in StoredIds
              /\ last'.taskId \notin TaskIdsUnder(StoredTasks, last'.projectId)) =>
                /\ last'.status = 404 /\ last'.error = "Task not found"
                /\ Stored' = Stored /\ StoredTasks' = StoredTasks
      ]_vars

\* C16, amended: the Express server first rejects with 400 a task update with
\* a blank project or task id or with an ill-typed completed or notes field;
\* every other task update under a project id that is not stored fails with
\* 404 "Project not found" (whatever the task id), every other one under a
\* stored project id and a task id that is not among the project's tasks
\* fails with 404 "Task not found"; all of them leave the stored projects and
\* tasks unchanged.
C16_NotFound ==
    [][last'.op = "update" =>
          LET early == /\ deploy = "express"
                       /\ \/ last'.projectId = BlankId
                          \/ last'.taskId = BlankId
                          \/ last'.completed.t \notin {"undefined", "boolean"}
                          \/ last'.notes.t \notin {"undefined", "string"}
              known == last'.projectId \in StoredIds
              listed == last'.taskId \in TaskIdsUnder(StoredTasks, last'.projectId)
          IN /\ early => last'.status = 400
             /\ (~ early /\ ~ known) =>
                   last'.status = 404 /\ last'.error = "Project not found"
             /\ (~ early /\ known /\ ~ listed) =>
                   last'.status = 404 /\ last'.error = "Task not found"
             /\ (early \/ ~ known \/ ~ listed) =>
                   Stored' = Stored /\ StoredTasks' = StoredTasks
             /\ (~ early /\ known /\ listed) => last'.status = 200
      ]_vars

\* with a project stored, an update under an unknown project id and an
\* unknown task id was answered "Project not found"
C16_Witness ==
    /\ last.op = "update"
    /\ last.status = 404 /\ last.error = "Project not found"
    /\ Len(Stored) >= 1
    /\ last.projectId \notin StoredIds
    /\ last.taskId \notin UNION {TaskIdsUnder(StoredTasks, q) : q \in StoredIds}

\* C17: updatePhaseStatus called with a phase name other than planning,
\* design, implementation, testing and deployment throws the invalid-phase
\* error and leaves the project's phases and overallStatus as they were.
C17_InvalidPhaseRejected ==
    (/\ last.op = "updatePhaseStatus"
     /\ last.phase \notin {"planning", "design", "implementation", "testing", "deployment"}) =>
        /\ last.threw
        /\ last.error = <<"Invalid phase: ", last.phase>>
        /\ Stored[1].phases = last.before.phases
        /\ Stored[1].overallStatus = last.before.overallStatus

\* the evidence references the stored task with the given id holds, <<>> when
\* the project has no such task
ReferencesOf(projectId, taskId) ==
    LET mapping == TasksOf(projectId)
    IN IF taskId \in TaskIdsUnder(StoredTasks, projectId)
       THEN mapping[PositionOf(mapping, taskId)[1]][PositionOf(mapping, taskId)[2]].evidenceFiles
       ELSE <<>>

\* C18: an evidence download for (project, task, filename) serves a file only
\* if the task lists the reference project/task/filename, and then it serves
\* that very file; for an unknown project the answer is "Project not found",
\* else for an unknown task "Task not found", else for a file the task does
\* not list 403 "File not authorized for this task"; so no file is served
\* through a task it is not attached to.
C18_DownloadAuthorized ==
    last.op = "download" =>
        LET known == last.projectId \in StoredIds
            listed == last.taskId \in TaskIdsUnder(StoredTasks, last.projectId)
            refs == ReferencesOf(last.projectId, last.taskId)
            plain == Len(last.filename) = 1 /\ last.filename[1].k = "seg"
            attached ==
                /\ plain
                /\ \E i \in 1..Len(refs) :
                      refs[i] = <<last.projectId, last.taskId, last.filename[1].v>>
        IN /\ ~ known => last.status = 404 /\ last.error = "Project not found"
           /\ (known /\ ~ listed) => last.status = 404 /\ last.error = "Task not found"
           /\ (known /\ listed /\ ~ attached) =>
                 last.status = 403 /\ last.error = "File not authorized for this task"
           /\ (known /\ listed /\ attached) =>
                 \/ last.status = 200
                 \/ last.status = 404 /\ last.error = "File not found"
           /\ last.status = 200 =>
                 /\ attached
                 /\ last.served = <<last.projectId, last.taskId, last.filename[1].v>>

\* a file attached to the first design task was asked for through the second
\* one, by way of "..", and refused
C18_Witness ==
    /\ last.op = "download"
    /\ last.status = 403
    /\ Len(last.filename) = 3
    /\ last.filename[1] = Up
    /\ \E i \in 1..Len(ReferencesOf(last.projectId, last.filename[2].v)) :
          ReferencesOf(last.projectId, last.filename[2].v)[i]
             = <<last.projectId, last.filename[2].v, "a.pdf">>

\* the fields of a project object
ProjectFields == {"id", "name", "createdDate", "phases", "overallStatus"}

\* what Storage.getProjectById returns from a file: the stored object, or
\* undefined
LoadProject(file, projectId) ==
    IF getProjectById(file, projectId) > 0
    THEN [found |-> TRUE, object |-> file[getProjectById(file, projectId)]]
    ELSE [found |-> FALSE]

\* C19: right after a successful saveProject, getProjectById under the same
\* id returns an object with the field values of the one saved, and right
\* after a successful saveTasksForProject, getTasksForProject returns the
\* mapping saved (ids, dates, flags, notes, evidence references); every other
\* save, of another project or of another project's tasks, and every failed
\* save leaves what is loaded under an id as it was.
C19_SaveLoadRoundTrip ==
    [][/\ (last'.op = "saveProject" /\ last'.ok) =>
             /\ LoadProject(projectsFile', last'.project.id).found
             /\ \A key \in ProjectFields :
                   FieldOf(LoadProject(projectsFile', last'.project.id).object, key)
                      = FieldOf(last'.project, key)
       /\ (last'.op = "saveTasks" /\ last'.ok) =>
             getTasksForProject(tasksFile', last'.projectId) = last'.mapping
       /\ \A id \in 1..MaxProjects :
             /\ ~ (last'.op = "saveProject" /\ last'.ok /\ last'.project.id = id) =>
                   LoadProject(projectsFile', id) = LoadProject(projectsFile, id)
             /\ ~ (last'.op = "saveTasks" /\ last'.ok /\ last'.projectId = id) =>
                   getTasksForProject(tasksFile', id) = getTasksForProject(tasksFile, id)
      ]_vars

\* the project saved without a name is loaded back, with planning completed
\* and no name, after another project and a task mapping were saved
C19_Witness ==
    /\ last.op = "saveTasks" /\ last.ok /\ last.projectId = 1
    /\ Len(projectsFile) = 2
    /\ LoadProject(projectsFile, 1).found
    /\ projectsFile[1].id = 1
    /\ FieldOf(projectsFile[1], "name") = Undefined
    /\ projectsFile[1].phases["planning"].completedDate = 2
    /\ Len(getTasksForProject(tasksFile, 1)["planning"]) = 1
    /\ getTasksForProject(tasksFile, 1)["planning"][1].notes = Str(<<"n">>)

\* C20: a successful saveProject of an id that is already stored replaces
\* that entry where it stands and keeps the number of stored projects; of a
\* new id it appends one entry and keeps the others; a failed one changes
\* nothing; and no two stored projects ever share an id.
C20_SaveProjectUpsert ==
    [][/\ last'.op = "saveProject" =>
             LET id == last'.project.id
                 at == getProjectById(projectsFile, id)
             IN IF ~ last'.ok THEN projectsFile' = projectsFile
                ELSE IF at > 0
                THEN /\ Len(projectsFile') = Len(projectsFile)
                     /\ projectsFile'[at].id = id
                     /\ \A i \in 1..Len(projectsFile) :
                           i # at => projectsFile'[i] = projectsFile[i]
                ELSE /\ Len(projectsFile') = Len(projectsFile) + 1
                     /\ projectsFile'[Len(projectsFile')].id = id
                     /\ \A i \in 1..Len(projectsFile) : projectsFile'[i] = projectsFile[i]
       /\ \A i, j \in 1..Len(projectsFile') :
             projectsFile'[i].id = projectsFile'[j].id => i = j
      ]_vars

\* a stored project was saved again, in a different state, while another
\* project is stored after it
C20_Witness ==
    /\ last.op = "saveProject" /\ last.ok
    /\ Len(projectsFile) = 2
    /\ projectsFile[1].id = last.project.id
    /\ projectsFile[1].phases["planning"].completed
    /\ ~ projectsFile[2].phases["planning"].completed

\* the task with the given id in a mapping that has it
TaskIn(mapping, taskId) ==
    LET ph == PhaseOfTask(mapping, taskId)
    IN mapping[ph][FindIndex(mapping[ph], taskId)]

\* C21: a successful update that carries notes and no completed field leaves
\* the task with the notes given and with the completed flag and the
\* completedDate it had before the request.
C21_NotesKeepCompletion ==
    [][(/\ last'.op = "update" /\ last'.status = 200
        /\ last'.completed.t = "undefined" /\ last'.notes.t = "string") =>
          LET before == TaskIn(MappingIn(StoredTasks, last'.projectId), last'.taskId)
              after == TaskIn(MappingIn(StoredTasks', last'.projectId), last'.taskId)
          IN /\ after.notes = last'.notes
             /\ after.completed = before.completed
             /\ after.completedDate = before.completedDate
      ]_vars

\* notes were written on a task that was completed by an earlier request
C21_Witness ==
    /\ LastOk("update")
    /\ last.completed.t = "undefined"
    /\ last.notes = Str(<<"n">>)
    /\ LastTask.notes = Str(<<"n">>)
    /\ LastTask.completed
    /\ LastTask.completedDate # null
    /\ LastTask.completedDate < last.time

\* C22: a successful update that carries a notes text leaves the task with
\* exactly that text, and in every reachable state the notes of every stored
\* task are a string (never null, never another type).
C22_NotesAreStrings ==
    /\ (LastOk("update") /\ last.notes.t = "string") => LastTask.notes = last.notes
    /\ \A id \in StoredIds : \A pos \in Positions(TasksOf(id)) :
          TasksOf(id)[pos[1]][pos[2]].notes.t = "string"

\* the project with the given id in a store that has it
ProjectIn(store, projectId) == store[FindIndex(store, projectId)]

\* C23: a successful task update on a task of phase p leaves the completed
\* flag and the completedDate of the four other phases as they were, leaves
\* every task other than the updated one as it was (in this project and in
\* every other), and leaves the id, the name and the createdDate of the
\* project, and every other project, unchanged.
C23_OnlyAffectedPhase ==
    [][(last'.op = "update" /\ last'.status = 200) =>
          LET pid == last'.projectId
              old == MappingIn(StoredTasks, pid)
              new == MappingIn(StoredTasks', pid)
              p == PhaseOfTask(old, last'.taskId)
              k == FindIndex(old[p], last'.taskId)
              was == ProjectIn(Stored, pid)
              is == ProjectIn(Stored', pid)
          IN /\ [is.phases EXCEPT ![p] = was.phases[p]] = was.phases
             /\ is.id = was.id /\ is.name = was.name /\ is.createdDate = was.createdDate
             /\ [new EXCEPT ![p][k] = old[p][k]] = old
             /\ [Stored' EXCEPT ![FindIndex(Stored, pid)] = was] = Stored
             /\ [StoredTasks' EXCEPT ![pid] = old] = StoredTasks
      ]_vars

\* a task was reopened in one phase while another phase is completed and a
\* third has one completed task
C23_Witness ==
    /\ LastOk("update")
    /\ last.completed = Bool(FALSE)
    /\ LET project == ProjectOf(last.projectId)
           mapping == TasksOf(last.projectId)
       IN /\ ~ project.phases[LastTask.phase].completed
          /\ \E other \in PhaseNames \ {LastTask.phase} :
                /\ project.phases[other].completed
                /\ project.phases[other].completedDate # null
          /\ \E third \in PhaseNames \ {LastTask.phase} : CompletedIn(mapping, third) = 1

\* C24: a task update answered with the failure of saving leaves the stored
\* tasks and the stored projects as they were before the request, and the
\* stored phase flag of the task's phase still agrees with the stored tasks
C24_UpdateAtomic ==
    [][(last'.op = "update" /\ last'.status = 500) =>
          /\ tasksFile' = tasksFile
          /\ projectsFile' = projectsFile
          /\ LET pid == last'.projectId
                 mapping == MappingIn(tasksFile', pid)
                 p == PhaseOfTask(mapping, last'.taskId)
             IN ProjectIn(projectsFile', pid).phases[p].completed
                   = AllCompleted(mapping, p)
      ]_vars

\* C25: no stored project has a phase marked completed whose stored task list
\* is empty, whatever task updates have been made on the project
C25_EmptyPhaseNeverCompleted ==
    \A id \in StoredIds : \A p \in DOMAIN TasksOf(id) :
       Len(TasksOf(id)[p]) = 0 => ~ ProjectOf(id).phases[p].completed

\* after a successful update every phase that has tasks is completed, a phase
\* without tasks is not, and the project is in progress
C25_Witness ==
    /\ LastOk("update")
    /\ LET project == ProjectOf(last.projectId)
           mapping == TasksOf(last.projectId)
       IN /\ \E p \in PhaseNames : Len(mapping[p]) = 0 /\ ~ project.phases[p].completed
          /\ \E p \in PhaseNames : Len(mapping[p]) > 0
          /\ \A p \in PhaseNames : Len(mapping[p]) > 0 => project.phases[p].completed
          /\ project.overallStatus = "In Progress"

\* C26: in the serverless deployment a report asked for a project that the
\* projects function has stored finds the project, and its statistics are
\* those of the project's tasks as the projects function holds them
C26_ReportsShareStore ==
    (last.op = "report" /\ FindIndex(projects, last.projectId) > 0) =>
       /\ last.status = 200
       /\ last.totalTasks = ReportStats(tasks[last.projectId]).totalTasks
       /\ last.completedTasks = ReportStats(tasks[last.projectId]).completedTasks
       /\ last.overallSecurityScore
             = ReportStats(tasks[last.projectId]).overallSecurityScore

\* what the comparison of the deployments looks at: per stored project, in
\* order, its phase flags, its overall status and the completed flag and the
\* notes of every task
Observed(ps, ts) ==
    [i \in 1..Len(ps) |->
        LET mapping == MappingIn(ts, ps[i].id)
        IN [phases |-> [p \in DOMAIN ps[i].phases |-> ps[i].phases[p].completed],
            overallStatus |-> ps[i].overallStatus,
            tasks |-> [p \in DOMAIN mapping |->
                          [k \in 1..Len(mapping[p]) |->
                              [completed |-> mapping[p][k].completed,
                               notes |-> mapping[p][k].notes]]]]]

C28_ToggleAndNotesIndependent ==
    [][(last'.op = "update" /\ last'.status = 200 /\ page.projectId # null) =>
          LET before == TaskIn(MappingIn(tasks, page.projectId), page.taskId)
              after == TaskIn(MappingIn(tasks', page.projectId), page.taskId)
          IN /\ last'.from = "updateTaskNotes" => after.completed = before.completed
             /\ last'.from = "updateTaskStatus" => after.notes = before.notes
      ]_vars

====
